---- MODULE Spec2Model ----
(***************************************************************************)
(* xmphash: the streaming hasher contract (Hasher), the table-driven CRC32 *)
(* (Crc32Hasher, Crc32Lut), the owning handle of an external digest        *)
(* context (EvpMdCtxWrapper) and the adapter over the external digest      *)
(* engine (EvpHasher).                                                     *)
(*                                                                         *)
(* A std::uint32_t is a tuple of four bytes, most significant first, so    *)
(* that every 32-bit operation keeps its width.                            *)
(***************************************************************************)
EXTENDS Integers, Sequences, FiniteSets, TLC

(* ------------------------------ bounds -------------------------------- *)

\* bytes passed by one consume call
MaxChunk == 2
\* bytes one hasher is offered over its lifetime
MaxFed == 2
\* digest contexts the engine can hand out in one run
MaxCtx == 2
\* EvpMdCtxWrapper objects that can be alive at once
MaxHandles == 2
\* bytes a free-standing context absorbs
MaxHandleAcc == 1

\* byte values the callers draw their data from
ByteVals == {0, 255}

(* ------------------------ 32-bit arithmetic --------------------------- *)

RECURSIVE XorBits(_, _, _)
XorBits(a, b, n) ==
    IF n = 0 THEN 0
    ELSE (((a % 2) + (b % 2)) % 2) + 2 * XorBits(a \div 2, b \div 2, n - 1)

\* a ^ b on two bytes
Xor8(a, b) == XorBits(a, b, 8)

\* x ^ y on two 32-bit words
Xor32(x, y) == [i \in 1..4 |-> Xor8(x[i], y[i])]

\* x >> 1 on a 32-bit word (zero fill)
Shr1(x) ==
    [i \in 1..4 |-> (x[i] \div 2) + 128 * (IF i = 1 THEN 0 ELSE (x[i - 1] % 2))]

\* x >> 8 on a 32-bit word (zero fill)
Shr8(x) == <<0, x[1], x[2], x[3]>>

\* x & 0xFF as a number
LowByte(x) == x[4]

\* a byte widened to 32 bits
Widen(b) == <<0, 0, 0, b>>

(* ------------------------------ Crc32Lut ------------------------------ *)

\* 0xedb88320
poly == <<237, 184, 131, 32>>

RECURSIVE LutRounds(_, _)
LutRounds(pre, j) ==
    IF j = 0 THEN pre
    ELSE LutRounds(IF (LowByte(pre) % 2) = 1 THEN Xor32(poly, Shr1(pre)) ELSE Shr1(pre),
                   j - 1)

\* a table built with seven rounds per entry instead of eight (mutant)
crc32LutShort == [i \in 0..255 |-> LutRounds(Widen(i), 7)]

crc32Lut == [i \in 0..255 |-> LutRounds(Widen(i), 8)]

(* ----------------------------- Crc32Hasher ---------------------------- *)

\* 0xffffffff
base == <<255, 255, 255, 255>>

\* an implementation that restarts from base on every call (mutant)
RECURSIVE Crc32ConsumeFromBase(_, _)
Crc32ConsumeFromBase(partial, data) ==
    IF data = <<>> THEN base
    ELSE LET p == Crc32ConsumeFromBase(partial, SubSeq(data, 1, Len(data) - 1))
             b == data[Len(data)]
         IN  Xor32(crc32Lut[LowByte(Xor32(p, Widen(b)))], Shr8(p))

\* a loop body that leaves out the shift of the register (mutant)
Crc32Step_noshift(partial_next, b) ==
    Xor32(crc32Lut[LowByte(Xor32(partial_next, Widen(b)))], partial_next)

\* the body of the loop of consumeImpl for the byte b = ucdata[i]
Crc32Step(partial_next, b) ==
    Xor32(crc32Lut[LowByte(Xor32(partial_next, Widen(b)))], Shr8(partial_next))

\* the register after the loop of consumeImpl over data, starting from partial
RECURSIVE Crc32ConsumeImpl(_, _)
Crc32ConsumeImpl(partial, data) ==
    IF data = <<>> THEN partial
    ELSE Crc32ConsumeImpl(Crc32Step(partial, Head(data)), Tail(data))

\* a finalizeImpl that masks each byte with 0xf (mutant)
Crc32FinalizeNibble(partial) ==
    LET final == Xor32(partial, base)
    IN  <<LowByte(Shr8(Shr8(Shr8(final)))) % 16,
          LowByte(Shr8(Shr8(final))) % 16,
          LowByte(Shr8(final)) % 16,
          LowByte(final) % 16>>

\* the four bytes finalizeImpl writes, ucbuf[0] first
Crc32FinalizeImpl(partial) ==
    LET final == Xor32(partial, base)
    IN  <<LowByte(Shr8(Shr8(Shr8(final)))),
          LowByte(Shr8(Shr8(final))),
          LowByte(Shr8(final)),
          LowByte(final)>>

\* a resetImpl that clears the register (mutant)
Crc32ResetToZero == <<0, 0, 0, 0>>

Crc32ResetImpl == base

Crc32DigestSize == 4

(* ------------------- the external digest engine ----------------------- *)
(* The engine is not part of the repository.  A context is a heap cell    *)
(* holding the algorithm it was initialised for and the bytes absorbed so *)
(* far; every engine call that can report failure takes its outcome (ok)  *)
(* from the caller of the operator, i.e. from the environment.            *)

\* names EVP_get_digestbyname resolves; every other name yields nullptr
EngineNames == {"sha256"}

AlgoNames == EngineNames \cup {"bogus"}

NullCtx == 0

CtxIds == 1..MaxCtx

NoDigest == ""

UnallocCtx == [st |-> "unalloc", digest |-> NoDigest, acc |-> <<>>, nfree |-> 0]

HasFreshCtx(hp) == \E c \in CtxIds : hp[c].st = "unalloc"

FreshCtx(hp) == CHOOSE c \in CtxIds :
    hp[c].st = "unalloc" /\ \A d \in CtxIds : hp[d].st = "unalloc" => c <= d

\* ::EVP_MD_CTX_new(): a new context, or nullptr when the allocation fails
EVP_MD_CTX_new(hp, ok) ==
    IF ok
    THEN [heap |-> [hp EXCEPT ![FreshCtx(hp)].st = "live"], ctx |-> FreshCtx(hp)]
    ELSE [heap |-> hp, ctx |-> NullCtx]

\* ::EVP_MD_CTX_free(ctx): releases the context; a null argument is ignored
EVP_MD_CTX_free(hp, c) ==
    IF c = NullCtx THEN hp
    ELSE [hp EXCEPT ![c] = [st |-> "freed", digest |-> NoDigest, acc |-> <<>>,
                            nfree |-> hp[c].nfree + 1]]

\* ::EVP_MD_CTX_copy_ex(out, in): "ok" (out now carries in's state), "fail"
\* (returned 0) or "ub" (out is null and is dereferenced)
EVP_MD_CTX_copy_ex(hp, out, in, ok) ==
    IF in = NullCtx THEN [heap |-> hp, res |-> "fail"]
    ELSE IF out = NullCtx THEN [heap |-> hp, res |-> "ub"]
    ELSE IF ok
    THEN [heap |-> [hp EXCEPT ![out].digest = hp[in].digest, ![out].acc = hp[in].acc],
          res |-> "ok"]
    ELSE [heap |-> hp, res |-> "fail"]

\* ::EVP_get_digestbyname(name): the algorithm, or nullptr (NoDigest)
EVP_get_digestbyname(name) == IF name \in EngineNames THEN name ELSE NoDigest

\* ::EVP_MD_size(type)
EVP_MD_size(type) == IF type = "sha256" THEN 32 ELSE 0

\* ::EVP_DigestInit_ex(ctx, type, nullptr)
EVP_DigestInit_ex(hp, c, type, ok) ==
    IF c = NullCtx THEN [heap |-> hp, res |-> "ub"]
    ELSE IF ok
    THEN [heap |-> [hp EXCEPT ![c].digest = type, ![c].acc = <<>>], res |-> "ok"]
    ELSE [heap |-> hp, res |-> "fail"]

\* ::EVP_DigestUpdate(ctx, data, count)
EVP_DigestUpdate(hp, c, data, ok) ==
    IF c = NullCtx THEN [heap |-> hp, res |-> "ub"]
    ELSE IF ok
    THEN [heap |-> [hp EXCEPT ![c].acc = @ \o data], res |-> "ok"]
    ELSE [heap |-> hp, res |-> "fail"]

\* the digest the engine computes for algorithm type over the bytes acc:
\* EVP_MD_size(type) cells, cell k standing for byte k of that digest
EngineDigest(type, acc) == [k \in 1..EVP_MD_size(type) |-> <<k>> \o acc]

(* --------------------------- EvpMdCtxWrapper -------------------------- *)
(* Each member function maps the heap and the context_ fields involved to *)
(* the heap and fields after the call; out is "ok", "throw" (the          *)
(* std::runtime_error) or "crash" (the process dies in the engine).       *)

\* what a call that runs into undefined behaviour in the engine can do
UbOutcomes == {"crash", "throw"}

\* EvpMdCtxWrapper()
Wrapper_ctor(hp, allocOk) ==
    LET n == EVP_MD_CTX_new(hp, allocOk)
    IN  [heap |-> n.heap, context_ |-> n.ctx]

\* a copy that shares the source's context (mutant)
Wrapper_copy_ctor_shallow(hp, other, allocOk, copyOk, ub) ==
    [heap |-> hp, context_ |-> other, out |-> "ok"]

\* EvpMdCtxWrapper(const EvpMdCtxWrapper& other)
Wrapper_copy_ctor(hp, other, allocOk, copyOk, ub) ==
    LET n == EVP_MD_CTX_new(hp, allocOk)
        c == EVP_MD_CTX_copy_ex(n.heap, n.ctx, other, copyOk)
    IN  [heap |-> c.heap, context_ |-> n.ctx,
         out |-> IF c.res = "ok" THEN "ok" ELSE IF c.res = "fail" THEN "throw" ELSE ub]

\* a move that leaves the source holding its context (mutant)
Wrapper_move_ctor_keep(other) == [context_ |-> other, other_ |-> other]

\* EvpMdCtxWrapper(EvpMdCtxWrapper&& other): nullptr, then swap
Wrapper_move_ctor(other) == [context_ |-> other, other_ |-> NullCtx]

\* operator=(const EvpMdCtxWrapper& other); self is this == &other, in which
\* case other.get() is read after this->context_ was set to nullptr
Wrapper_copy_assign(hp, this, other, self, copyOk, ub) ==
    LET freed == EVP_MD_CTX_free(hp, this)
        c == EVP_MD_CTX_copy_ex(freed, NullCtx, IF self THEN NullCtx ELSE other, copyOk)
    IN  [heap |-> c.heap, context_ |-> NullCtx,
         out |-> IF c.res = "ok" THEN "ok" ELSE IF c.res = "fail" THEN "throw" ELSE ub]

\* a move-assignment that drops the destination's context (mutant)
Wrapper_move_assign_drop(this, other) == [context_ |-> other, other_ |-> NullCtx]

\* operator=(EvpMdCtxWrapper&& other): swap
Wrapper_move_assign(this, other) == [context_ |-> other, other_ |-> this]

\* ~EvpMdCtxWrapper()
Wrapper_dtor(hp, this) ==
    IF this # NullCtx THEN EVP_MD_CTX_free(hp, this) ELSE hp

(* -------------------------------- Hasher ------------------------------ *)
(* A hasher object is a record: kind tells the dynamic type, isFinalized_ *)
(* is the base class member, partial_ is Crc32Hasher's register, and      *)
(* context_, name_, digest_type_ are EvpHasher's members (context_ being  *)
(* the context_ of its EvpMdCtxWrapper member).                           *)

\* the slots hasher objects live in: an original and the copy made of it
HasherIds == {"orig", "copy"}

Zero32 == <<0, 0, 0, 0>>

NoHasher == [kind |-> "none", isFinalized_ |-> FALSE, partial_ |-> Zero32,
             context_ |-> NullCtx, name_ |-> "", digest_type_ |-> NoDigest]

\* Crc32Hasher(): Hasher(), partial_(base)
Crc32Hasher_ctor == [kind |-> "crc32", isFinalized_ |-> FALSE, partial_ |-> base,
                     context_ |-> NullCtx, name_ |-> "crc32", digest_type_ |-> NoDigest]

\* EvpHasher(name): context_(), name_(name), digest_type_(nullptr), then
\* initContext(); a throw destroys the already constructed member context_
EvpHasher_ctor(hp, name, allocOk, initOk, ub) ==
    LET w == Wrapper_ctor(hp, allocOk)
        type == EVP_get_digestbyname(name)
        i == EVP_DigestInit_ex(w.heap, w.context_, type, initOk)
        obj == [kind |-> "evp", isFinalized_ |-> FALSE, partial_ |-> Zero32,
                context_ |-> w.context_, name_ |-> name, digest_type_ |-> type]
    IN  IF type = NoDigest
        THEN [heap |-> Wrapper_dtor(w.heap, w.context_), h |-> NoHasher,
              out |-> "invalid_argument"]
        ELSE IF i.res = "ok" THEN [heap |-> i.heap, h |-> obj, out |-> "ok"]
        ELSE IF i.res = "ub" /\ ub = "crash"
        THEN [heap |-> i.heap, h |-> NoHasher, out |-> "crash"]
        ELSE [heap |-> Wrapper_dtor(i.heap, w.context_), h |-> NoHasher,
              out |-> "runtime_error"]

\* a digest size that reads as 0 once the hasher is finalized (mutant)
Hasher_getDigestSize_fin(hs) ==
    IF hs.isFinalized_ THEN 0
    ELSE IF hs.kind = "crc32" THEN Crc32DigestSize ELSE EVP_MD_size(hs.digest_type_)

\* getDigestSize() -> getDigestSizeImpl()
Hasher_getDigestSize(hs) ==
    IF hs.kind = "crc32" THEN Crc32DigestSize ELSE EVP_MD_size(hs.digest_type_)

\* getName() -> getNameImpl()
Hasher_getName(hs) == IF hs.kind = "crc32" THEN "crc32" ELSE hs.name_

\* consumeImpl(data, count) of the dynamic type: the object and the heap
\* afterwards, and the bool it returns
ConsumeImpl(hs, hp, data, engOk) ==
    IF hs.kind = "crc32"
    THEN [h |-> [hs EXCEPT !.partial_ = Crc32ConsumeImpl(hs.partial_, data)],
          heap |-> hp, ret |-> TRUE]
    ELSE LET u == EVP_DigestUpdate(hp, hs.context_, data, engOk)
         IN  [h |-> hs, heap |-> u.heap, ret |-> (u.res = "ok")]

\* a consume without the isFinalized_ test (mutant)
Hasher_consume_nofin(hs, hp, dataNull, data, engOk) ==
    IF ~dataNull
    THEN LET r == ConsumeImpl(hs, hp, data, engOk)
         IN  [h |-> r.h, heap |-> r.heap, ret |-> TRUE]
    ELSE [h |-> hs, heap |-> hp, ret |-> FALSE]

\* a consume without the null test: a null data reads as no bytes (mutant)
Hasher_consume_nonull(hs, hp, dataNull, data, engOk) ==
    IF ~hs.isFinalized_
    THEN LET r == ConsumeImpl(hs, hp, IF dataNull THEN <<>> ELSE data, engOk)
         IN  [h |-> r.h, heap |-> r.heap, ret |-> TRUE]
    ELSE [h |-> hs, heap |-> hp, ret |-> FALSE]

\* Hasher::consume(data, count): data holds the count bytes when not null
Hasher_consume(hs, hp, dataNull, data, engOk) ==
    IF ~hs.isFinalized_ /\ ~dataNull
    THEN LET r == ConsumeImpl(hs, hp, data, engOk)
         IN  [h |-> r.h, heap |-> r.heap, ret |-> TRUE]
    ELSE [h |-> hs, heap |-> hp, ret |-> FALSE]

\* writing cells at the start of a buffer keeps what lies behind them
WriteBuf(buf, cells) == cells \o SubSeq(buf, Len(cells) + 1, Len(buf))

\* finalizeImpl(buf) of the dynamic type: the buffer afterwards and the bool;
\* engOk is what ::EVP_DigestFinal_ex reports
FinalizeImpl(hs, hp, buf, engOk) ==
    IF hs.kind = "crc32"
    THEN [buf |-> WriteBuf(buf, [k \in 1..4 |-> <<Crc32FinalizeImpl(hs.partial_)[k]>>]),
          ret |-> TRUE]
    ELSE IF engOk
    THEN [buf |-> WriteBuf(buf, EngineDigest(hp[hs.context_].digest, hp[hs.context_].acc)),
          ret |-> TRUE]
    ELSE [buf |-> buf, ret |-> FALSE]

\* a finalize without the capacity test (mutant)
Hasher_finalize_nocap(hs, hp, buf, bufNull, count, engOk) ==
    IF ~hs.isFinalized_ /\ ~bufNull
    THEN LET r == FinalizeImpl(hs, hp, buf, engOk)
         IN  [h |-> [hs EXCEPT !.isFinalized_ = r.ret], buf |-> r.buf, ret |-> r.ret]
    ELSE [h |-> hs, buf |-> buf, ret |-> FALSE]

\* a finalize that sets the flag before finalizeImpl has succeeded (mutant)
Hasher_finalize_eager(hs, hp, buf, bufNull, count, engOk) ==
    IF ~hs.isFinalized_ /\ ~bufNull /\ count >= Hasher_getDigestSize(hs)
    THEN LET r == FinalizeImpl(hs, hp, buf, engOk)
         IN  [h |-> [hs EXCEPT !.isFinalized_ = TRUE], buf |-> r.buf, ret |-> r.ret]
    ELSE [h |-> hs, buf |-> buf, ret |-> FALSE]

\* Hasher::finalize(buf, count)
Hasher_finalize(hs, hp, buf, bufNull, count, engOk) ==
    IF ~hs.isFinalized_ /\ ~bufNull /\ count >= Hasher_getDigestSize(hs)
    THEN LET r == FinalizeImpl(hs, hp, buf, engOk)
         IN  IF r.ret
             THEN [h |-> [hs EXCEPT !.isFinalized_ = TRUE], buf |-> r.buf, ret |-> TRUE]
             ELSE [h |-> hs, buf |-> r.buf, ret |-> FALSE]
    ELSE [h |-> hs, buf |-> buf, ret |-> FALSE]

\* Hasher::reset() -> resetImpl(); isFinalized_ is not assigned
Hasher_reset(hs, hp, engOk) ==
    IF hs.kind = "crc32"
    THEN [h |-> [hs EXCEPT !.partial_ = Crc32ResetImpl], heap |-> hp, ret |-> TRUE]
    ELSE LET i == EVP_DigestInit_ex(hp, hs.context_, hs.digest_type_, engOk)
         IN  [h |-> hs, heap |-> i.heap, ret |-> (i.res = "ok")]

\* the defaulted copy constructors: Hasher(other) copies isFinalized_,
\* Crc32Hasher copies partial_, EvpHasher copy-constructs context_ and copies
\* name_ and digest_type_
Hasher_copy_ctor(hs, hp, allocOk, copyOk, ub) ==
    IF hs.kind = "crc32" THEN [h |-> hs, heap |-> hp, out |-> "ok"]
    ELSE LET w == Wrapper_copy_ctor(hp, hs.context_, allocOk, copyOk, ub)
         IN  [h |-> IF w.out = "ok" THEN [hs EXCEPT !.context_ = w.context_] ELSE NoHasher,
              heap |-> w.heap, out |-> w.out]

\* the destructors: ~EvpHasher destroys context_
Hasher_dtor(hs, hp) ==
    IF hs.kind = "evp" THEN Wrapper_dtor(hp, hs.context_) ELSE hp

(* ------------------------------- state -------------------------------- *)

VARIABLES
    hashers,    \* the hasher object in each slot (NoHasher: none)
    heap,       \* the engine's digest contexts
    outbuf,     \* the caller's digest buffer for the hasher in each slot
    hist,       \* per slot, what the caller has seen of the hasher
    call,       \* the call just made and what it returned
    crashed,    \* the process died in the engine
    handles,    \* free-standing EvpMdCtxWrapper objects
    threads,    \* per slot, the locals of the thread driving that hasher
    driver,     \* the locals of main() and how far it has got
    util,       \* the call to a string utility: its arguments and its result
    files       \* the CFileWrapper objects and the FILE streams

vars == <<hashers, heap, outbuf, hist, call, crashed, handles, threads, driver,
          util, files>>

EVP_MAX_MD_SIZE == 64

hash_max_custom_digest_size == 4

\* a maximum that only accounts for the bespoke digests (mutant)
hash_max_digest_size_custom == hash_max_custom_digest_size

hash_max_digest_size ==
    IF EVP_MAX_MD_SIZE >= hash_max_custom_digest_size
    THEN EVP_MAX_MD_SIZE ELSE hash_max_custom_digest_size

\* a caller's buffer, as the cells written to it so far, from its start
FreshBuf == <<>>

\* sent: the bytes of the consume calls that returned true since the object
\*       was constructed or last reset successfully;
\* finOk: a finalize call on this object has returned true, and reset was not
\*       called since;
\* engFail: the engine reported a failed update since construction or the
\*       last successful reset;
\* badFin: a finalize call was refused for its buffer while the object was
\*       not finalized;
\* parts: how many of the consume calls behind sent passed at least one byte;
\* pre:  for a copy, how many bytes of sent the original had taken when the
\*       copy was made
NewHist == [sent |-> <<>>, finOk |-> FALSE, engFail |-> FALSE, badFin |-> FALSE,
            parts |-> 0, pre |-> 0]

\* op: the operation; h: the hasher slot it was called on; ret: what it
\* returned (for a constructor: whether it completed); arg: the kind of
\* argument passed, or how a constructor or assignment ended; eng: false when
\* the engine was called and reported failure; dst, src: the wrappers of a
\* wrapper operation; val: the number an observer returned
NoCall == [op |-> "none", h |-> "", ret |-> FALSE, arg |-> "", eng |-> TRUE,
           dst |-> 0, src |-> 0, val |-> 0]

HasherCall(op, h, ret, arg, eng) ==
    [op |-> op, h |-> h, ret |-> ret, arg |-> arg, eng |-> eng, dst |-> 0, src |-> 0,
     val |-> 0]

HandleIds == 1..MaxHandles

DeadHandle == [live |-> FALSE, context_ |-> NullCtx]

\* the locals of a thread that drives one hasher: input is what it has to
\* send and pos how much of it was passed to consume; inside
\* Crc32Hasher::consumeImpl (pc = "loop") data is ucdata[i..count-1] and
\* partial_next the local of that name
NoThread == [pc |-> "idle", input |-> <<>>, pos |-> 0, data |-> <<>>,
             partial_next |-> Zero32]

\* main(): pc is the part of main() that runs next and i the index of its
\* loop; algoEls, hashers, digests are the vectors of those names; file is
\* what is left to read of the input file and inBuf the bytesRead bytes of
\* the last fread; printed is what was written to stdout after the banner;
\* status is "running" or how the process ended; ndebug tells whether the
\* build defines NDEBUG; log is the calls main() has made on the file and on
\* the hashers, in order: ev is "read", "eof", "readerr", "consume" or
\* "finalize", k the index of the hasher, data the bytes read or passed and
\* ret false for a read error and for a call that returned false
NoDriver == [pc |-> "off", i |-> 0, algoEls |-> <<>>, hashers |-> <<>>, file |-> <<>>,
             inBuf |-> <<>>, digests |-> <<>>, printed |-> <<>>, status |-> "none",
             ndebug |-> FALSE, log |-> <<>>]

DriverEvent(ev, k, data, ret) == [ev |-> ev, k |-> k, data |-> data, ret |-> ret]

\* a string utility of hasher.cpp: pc is "args" before the call and then
\* the name of the function that returned; ndebug tells whether the build
\* defines NDEBUG and so compiles its assert()s out; buf, str and delim are
\* the arguments; out is "ok" or "assert" (an assertion failed and the
\* process was aborted); ret is the value returned, and back what strToBytes
\* returns for the string bytesToStr returned
NoUtil == [pc |-> "none", ndebug |-> FALSE, buf |-> <<>>, str |-> <<>>, delim |-> 0,
           out |-> "none", ret |-> <<>>, back |-> [some |-> FALSE, vec |-> <<>>]]

\* CFileWrapper objects at once
MaxWrappers == 2

\* streams fopen returns in one run
MaxFiles == 2

WrapIds == 1..MaxWrappers

FileIds == 1..MaxFiles

\* a FILE* is a FileId or nullptr
NullFile == 0

\* the value of the macro EOF
EOF == 0 - 1

\* wrappers: the CFileWrapper objects, live between constructor and
\* destructor, with their member fp; streams: per FILE, whether fopen has
\* returned it ("unopened", "open", "closed") and how often fclose was called
\* on it; last: the member function called last, the object it was called
\* on, the fp that object held before and the int close() returned
NoFiles == [wrappers |-> [w \in WrapIds |-> [live |-> FALSE, fp |-> NullFile]],
            streams |-> [f \in FileIds |-> [state |-> "unopened", closes |-> 0]],
            last |-> [op |-> "none", w |-> 0, fp |-> NullFile, ret |-> 0]]

RECURSIVE SeqsUpTo(_, _)
SeqsUpTo(S, n) ==
    IF n = 0 THEN {<<>>}
    ELSE SeqsUpTo(S, n - 1) \cup
         {Append(q, x) : q \in {r \in SeqsUpTo(S, n - 1) : Len(r) = n - 1}, x \in S}

Chunks == SeqsUpTo(ByteVals, MaxChunk)

\* buffer capacities the callers pass to finalize
Capacities == {0, 3, 4, 31, 32, hash_max_digest_size}

Init ==
    /\ hashers = [h \in HasherIds |-> NoHasher]
    /\ heap = [c \in CtxIds |-> UnallocCtx]
    /\ outbuf = [h \in HasherIds |-> FreshBuf]
    /\ hist = [h \in HasherIds |-> NewHist]
    /\ call = NoCall
    /\ crashed = FALSE
    /\ handles = [w \in HandleIds |-> DeadHandle]
    /\ threads = [h \in HasherIds |-> NoThread]
    /\ driver = NoDriver
    /\ util = NoUtil
    /\ files = NoFiles

(* ------------------------ operations on hashers ----------------------- *)
(* Each call is an action whose parameters are the call's arguments and   *)
(* the outcomes the environment decides (allocation, engine results).     *)

\* Crc32Hasher h;
NewCrc32(h) ==
    /\ ~crashed
    /\ hashers[h].kind = "none"
    /\ hashers' = [hashers EXCEPT ![h] = Crc32Hasher_ctor]
    /\ outbuf' = [outbuf EXCEPT ![h] = FreshBuf]
    /\ hist' = [hist EXCEPT ![h] = NewHist]
    /\ call' = HasherCall("new", h, TRUE, "ok", TRUE)
    /\ UNCHANGED <<heap, crashed, handles, threads, driver, util, files>>

\* EvpHasher h(name);
NewEvpCall(h, name, allocOk, initOk, ub) ==
    LET r == EvpHasher_ctor(heap, name, allocOk, initOk, ub)
    IN  /\ ~crashed
        /\ hashers[h].kind = "none"
        /\ HasFreshCtx(heap)
        /\ hashers' = [hashers EXCEPT ![h] = r.h]
        /\ heap' = r.heap
        /\ crashed' = (r.out = "crash")
        /\ call' = HasherCall("new", h, r.out = "ok", r.out, TRUE)
        /\ outbuf' = [outbuf EXCEPT ![h] = FreshBuf]
        /\ hist' = [hist EXCEPT ![h] = NewHist]
        /\ UNCHANGED <<handles, threads, driver, util, files>>

NewEvp(h) ==
    \E name \in AlgoNames, allocOk \in BOOLEAN, initOk \in BOOLEAN, ub \in UbOutcomes :
        NewEvpCall(h, name, allocOk, initOk, ub)

\* h.consume(data, count): data holds the count bytes; with dataNull the
\* pointer passed is null and count is Len(data)
ConsumeCall(h, dataNull, data, engOk) ==
    LET hs == hashers[h]
        r == Hasher_consume(hs, heap, dataNull, data, engOk)
        engineFailed == hs.kind = "evp" /\ ~hs.isFinalized_ /\ ~dataNull /\ ~engOk
    IN  /\ ~crashed
        /\ hs.kind # "none"
        /\ Len(hist[h].sent) + Len(data) <= MaxFed
        /\ hs.kind = "crc32" => engOk
        /\ hashers' = [hashers EXCEPT ![h] = r.h]
        /\ heap' = r.heap
        /\ hist' = [hist EXCEPT
                      ![h].sent = IF r.ret THEN @ \o data ELSE @,
                      ![h].parts = IF r.ret /\ data # <<>> THEN @ + 1 ELSE @,
                      ![h].engFail = @ \/ engineFailed]
        /\ call' = HasherCall("consume", h, r.ret,
                            IF dataNull THEN "null"
                            ELSE IF data = <<>> THEN "empty" ELSE "data",
                            ~engineFailed)
        /\ UNCHANGED <<outbuf, crashed, handles, threads, driver, util, files>>

Consume(h) ==
    \E dataNull \in BOOLEAN, data \in Chunks, engOk \in BOOLEAN :
        ConsumeCall(h, dataNull, data, engOk)

\* h.finalize(buf, count), buf being the caller's buffer for h or null
FinalizeCall(h, bufNull, count, engOk) ==
    LET hs == hashers[h]
        r == Hasher_finalize(hs, heap, outbuf[h], bufNull, count, engOk)
        badBuf == bufNull \/ count < Hasher_getDigestSize(hs)
        engineFailed == hs.kind = "evp" /\ ~hs.isFinalized_ /\ ~badBuf /\ ~engOk
    IN  /\ ~crashed
        /\ hs.kind # "none"
        /\ hs.kind = "crc32" => engOk
        /\ hashers' = [hashers EXCEPT ![h] = r.h]
        /\ outbuf' = [outbuf EXCEPT ![h] = r.buf]
        /\ hist' = [hist EXCEPT
                      ![h].finOk = @ \/ r.ret,
                      ![h].badFin = @ \/ (~hs.isFinalized_ /\ badBuf)]
        /\ call' = HasherCall("finalize", h, r.ret,
                            IF bufNull THEN "null"
                            ELSE IF badBuf THEN "short" ELSE "fits",
                            ~engineFailed)
        /\ UNCHANGED <<heap, crashed, handles, threads, driver, util, files>>

Finalize(h) ==
    \E bufNull \in BOOLEAN, count \in Capacities, engOk \in BOOLEAN :
        FinalizeCall(h, bufNull, count, engOk)

\* h.reset()
ResetCall(h, engOk) ==
    LET hs == hashers[h]
        r == Hasher_reset(hs, heap, engOk)
    IN  /\ ~crashed
        /\ hs.kind # "none"
        /\ hs.kind = "crc32" => engOk
        /\ hashers' = [hashers EXCEPT ![h] = r.h]
        /\ heap' = r.heap
        /\ hist' = [hist EXCEPT
                      ![h].sent = IF r.ret THEN <<>> ELSE @,
                      ![h].parts = IF r.ret THEN 0 ELSE @,
                      ![h].engFail = IF r.ret THEN FALSE ELSE @,
                      ![h].finOk = FALSE]
        /\ call' = HasherCall("reset", h, r.ret,
                            IF hs.isFinalized_ THEN "finalized"
                            ELSE IF hist[h].sent # <<>> THEN "fed" ELSE "unfed",
                            engOk)
        /\ UNCHANGED <<outbuf, crashed, handles, threads, driver, util, files>>

Reset(h) == \E engOk \in BOOLEAN : ResetCall(h, engOk)

\* T dst(src); for the hasher in slot src, into the empty slot dst
CopyCall(src, dst, allocOk, copyOk, ub) ==
    LET r == Hasher_copy_ctor(hashers[src], heap, allocOk, copyOk, ub)
    IN  /\ ~crashed
        /\ src # dst
        /\ hashers[src].kind # "none"
        /\ hashers[dst].kind = "none"
        /\ hashers[src].kind = "evp" => HasFreshCtx(heap)
        /\ hashers[src].kind = "crc32" => allocOk /\ copyOk
        /\ hashers' = [hashers EXCEPT ![dst] = r.h]
        /\ heap' = r.heap
        /\ crashed' = (r.out = "crash")
        /\ hist' = [hist EXCEPT ![dst] =
                      IF r.out = "ok"
                      THEN [NewHist EXCEPT !.sent = hist[src].sent,
                                           !.parts = hist[src].parts,
                                           !.engFail = hist[src].engFail,
                                           !.pre = Len(hist[src].sent)]
                      ELSE NewHist]
        /\ call' = HasherCall("copy", dst, r.out = "ok", r.out, TRUE)
        /\ outbuf' = [outbuf EXCEPT ![dst] = FreshBuf]
        /\ UNCHANGED <<handles, threads, driver, util, files>>

CopyConstruct(src, dst) ==
    \E allocOk \in BOOLEAN, copyOk \in BOOLEAN, ub \in UbOutcomes :
        CopyCall(src, dst, allocOk, copyOk, ub)

\* the hasher in slot h goes out of scope
Destroy(h) ==
    /\ ~crashed
    /\ hashers[h].kind # "none"
    /\ hashers' = [hashers EXCEPT ![h] = NoHasher]
    /\ heap' = Hasher_dtor(hashers[h], heap)
    /\ outbuf' = [outbuf EXCEPT ![h] = FreshBuf]
    /\ hist' = [hist EXCEPT ![h] = NewHist]
    /\ call' = HasherCall("destroy", h, TRUE, "", TRUE)
    /\ UNCHANGED <<crashed, handles, threads, driver, util, files>>

(* The life of one hasher object: every call, with every argument.        *)
Next ==
    \/ NewCrc32("orig")
    \/ NewEvp("orig")
    \/ Consume("orig")
    \/ Finalize("orig")
    \/ Reset("orig")
    \/ Destroy("orig")

Spec == Init /\ [][Next]_vars

(* A hasher and the copies made of it mid-stream: each is fed its own      *)
(* bytes, which the engine absorbs, and is finalized into its own buffer   *)
(* of hash_max_digest_size bytes.                                          *)
CopyNext ==
    \/ NewCrc32("orig")
    \/ NewEvp("orig")
    \/ \E h \in HasherIds, b \in ByteVals : ConsumeCall(h, FALSE, <<b>>, TRUE)
    \/ \E h \in HasherIds, engOk \in BOOLEAN :
         FinalizeCall(h, FALSE, hash_max_digest_size, engOk)
    \/ CopyConstruct("orig", "copy")
    \/ Destroy("copy")

CopySpec == Init /\ [][CopyNext]_vars

(* ------------------ operations on EvpMdCtxWrapper objects -------------- *)

HandleCall(op, dst, src, out) ==
    [op |-> op, h |-> "", ret |-> (out = "ok"), arg |-> out, eng |-> TRUE,
     dst |-> dst, src |-> src, val |-> 0]

\* EvpMdCtxWrapper w;
HNew(w) ==
    /\ ~crashed
    /\ ~handles[w].live
    /\ HasFreshCtx(heap)
    /\ \E allocOk \in BOOLEAN :
         LET r == Wrapper_ctor(heap, allocOk)
         IN  /\ heap' = r.heap
             /\ handles' = [handles EXCEPT ![w] = [live |-> TRUE, context_ |-> r.context_]]
    /\ crashed' = crashed
    /\ call' = HandleCall("h_new", w, w, "ok")
    /\ UNCHANGED <<hashers, outbuf, hist, threads, driver, util, files>>

\* ::EVP_DigestInit_ex(w.get(), type, nullptr), as EvpHasher::initContext and
\* resetImpl do on their member
HInit(w) ==
    /\ ~crashed
    /\ handles[w].live
    /\ \E initOk \in BOOLEAN, ub \in UbOutcomes :
         LET r == EVP_DigestInit_ex(heap, handles[w].context_, "sha256", initOk)
             out == IF r.res = "ub" THEN ub ELSE r.res
         IN  /\ heap' = r.heap
             /\ crashed' = (out = "crash")
             /\ call' = HandleCall("h_init", w, w, out)
    /\ UNCHANGED <<hashers, outbuf, hist, handles, threads, driver, util, files>>

\* ::EVP_DigestUpdate(w.get(), data, count), as EvpHasher::consumeImpl does
HUpdate(w) ==
    /\ ~crashed
    /\ handles[w].live
    /\ handles[w].context_ # NullCtx
    /\ heap[handles[w].context_].digest # NoDigest
    /\ Len(heap[handles[w].context_].acc) < MaxHandleAcc
    /\ \E b \in ByteVals, engOk \in BOOLEAN :
         LET r == EVP_DigestUpdate(heap, handles[w].context_, <<b>>, engOk)
         IN  /\ heap' = r.heap
             /\ call' = HandleCall("h_update", w, w, r.res)
    /\ UNCHANGED <<hashers, outbuf, hist, handles, crashed, threads, driver, util, files>>

\* EvpMdCtxWrapper dst(src);
HCopyCtor(dst, src) ==
    /\ ~crashed
    /\ handles[src].live
    /\ ~handles[dst].live
    /\ HasFreshCtx(heap)
    /\ \E allocOk \in BOOLEAN, copyOk \in BOOLEAN, ub \in UbOutcomes :
         LET r == Wrapper_copy_ctor(heap, handles[src].context_, allocOk, copyOk, ub)
         IN  /\ heap' = r.heap
             /\ handles' = [handles EXCEPT ![dst] =
                              IF r.out = "ok"
                              THEN [live |-> TRUE, context_ |-> r.context_]
                              ELSE DeadHandle]
             /\ crashed' = (r.out = "crash")
             /\ call' = HandleCall("h_copy_ctor", dst, src, r.out)
    /\ UNCHANGED <<hashers, outbuf, hist, threads, driver, util, files>>

\* EvpMdCtxWrapper dst(std::move(src));
HMoveCtor(dst, src) ==
    /\ ~crashed
    /\ handles[src].live
    /\ ~handles[dst].live
    /\ LET r == Wrapper_move_ctor(handles[src].context_)
       IN  handles' = [handles EXCEPT ![src].context_ = r.other_,
                                      ![dst] = [live |-> TRUE, context_ |-> r.context_]]
    /\ call' = HandleCall("h_move_ctor", dst, src, "ok")
    /\ UNCHANGED <<hashers, outbuf, hist, heap, crashed, threads, driver, util, files>>

\* dst = src;  (dst and src may be the same object)
HCopyAssign(dst, src) ==
    /\ ~crashed
    /\ handles[src].live
    /\ handles[dst].live
    /\ \E copyOk \in BOOLEAN, ub \in UbOutcomes :
         LET r == Wrapper_copy_assign(heap, handles[dst].context_, handles[src].context_,
                                      dst = src, copyOk, ub)
         IN  /\ heap' = r.heap
             /\ handles' = [handles EXCEPT ![dst].context_ = r.context_]
             /\ crashed' = (r.out = "crash")
             /\ call' = HandleCall("h_copy_assign", dst, src, r.out)
    /\ UNCHANGED <<hashers, outbuf, hist, threads, driver, util, files>>

\* dst = std::move(src);  (dst and src may be the same object)
HMoveAssign(dst, src) ==
    /\ ~crashed
    /\ handles[src].live
    /\ handles[dst].live
    /\ LET r == Wrapper_move_assign(handles[dst].context_, handles[src].context_)
       IN  handles' = [[handles EXCEPT ![src].context_ = r.other_]
                          EXCEPT ![dst].context_ = r.context_]
    /\ call' = HandleCall("h_move_assign", dst, src, "ok")
    /\ UNCHANGED <<hashers, outbuf, hist, heap, crashed, threads, driver, util, files>>

\* w goes out of scope
HDestroy(w) ==
    /\ ~crashed
    /\ handles[w].live
    /\ heap' = Wrapper_dtor(heap, handles[w].context_)
    /\ handles' = [handles EXCEPT ![w] = DeadHandle]
    /\ call' = HandleCall("h_destroy", w, w, "ok")
    /\ UNCHANGED <<hashers, outbuf, hist, crashed, threads, driver, util, files>>

HandleNext ==
    \/ \E w \in HandleIds : HNew(w)
    \/ \E w \in HandleIds : HInit(w)
    \/ \E w \in HandleIds : HUpdate(w)
    \/ \E dst \in HandleIds, src \in HandleIds : HCopyCtor(dst, src)
    \/ \E dst \in HandleIds, src \in HandleIds : HMoveCtor(dst, src)
    \/ \E dst \in HandleIds, src \in HandleIds : HCopyAssign(dst, src)
    \/ \E dst \in HandleIds, src \in HandleIds : HMoveAssign(dst, src)
    \/ \E w \in HandleIds : HDestroy(w)

HandleSpec == Init /\ [][HandleNext]_vars

(* ============================== claims ================================= *)

\* the cells a Crc32Hasher with register partial writes on finalize
CrcCells(partial) == [k \in 1..4 |-> <<Crc32FinalizeImpl(partial)[k]>>]

\* the digest cells found at the start of buffer buf for hasher object hs
DigestWrittenIn(hs, buf) == SubSeq(buf, 1, Hasher_getDigestSize(hs))

\* the digest of the byte sequence sent under the algorithm of hs, as a
\* fresh hasher fed sent in one consume call produces it
CorrectDigestFor(hs, sent) ==
    IF hs.kind = "crc32" THEN CrcCells(Crc32ConsumeImpl(base, sent))
    ELSE EngineDigest(hs.digest_type_, sent)

\* the accumulator of hasher object hs
AccIn(hs, hp) ==
    IF hs.kind = "crc32" THEN hs.partial_
    ELSE IF hs.context_ = NullCtx THEN <<>> ELSE hp[hs.context_].acc

(* C1: once a finalize call on a hasher has returned true and reset has    *)
(* not been called since, every consume or finalize call on it returns     *)
(* false and leaves the object, its accumulator and the caller's buffer    *)
(* as they were.                                                           *)
C1_FinalizeOnce ==
    [][\A h \in HasherIds :
         (hist[h].finOk /\ call'.h = h /\ call'.op \in {"consume", "finalize"})
         => /\ call'.ret = FALSE
            /\ hashers'[h] = hashers[h]
            /\ heap' = heap
            /\ outbuf'[h] = outbuf[h]]_vars

\* a consume call with data was refused after a successful finalize
C1_Witness ==
    \E h \in HasherIds :
        /\ call.h = h /\ call.op = "consume" /\ call.arg = "data" /\ ~call.ret
        /\ hist[h].finOk
        /\ Len(hist[h].sent) > 0

(* C2 (as claimed): a reset that returns true leaves the hasher Active,    *)
(* also when it was finalized before: the finalized flag is clear.         *)
C2_ResetReactivates ==
    \A h \in HasherIds :
        (call.h = h /\ call.op = "reset" /\ call.ret) => ~hashers[h].isFinalized_

(* C3: whatever the chunks a Crc32Hasher was fed in (empty ones included), *)
(* the four bytes its finalize writes are those of a fresh Crc32Hasher     *)
(* fed the concatenation of the chunks in one consume call.                *)
C3_ChunkInvariance ==
    \A h \in HasherIds :
        (hashers[h].kind = "crc32" /\ hist[h].finOk)
        => DigestWrittenIn(hashers[h], outbuf[h])
             = CrcCells(Crc32ConsumeImpl(base, hist[h].sent))

\* a Crc32Hasher was finalized after taking its bytes in two non-empty chunks
C3_Witness ==
    \E h \in HasherIds :
        /\ hashers[h].kind = "crc32" /\ hist[h].finOk
        /\ hist[h].parts >= 2

(* C4: a finalize call on an Active hasher with a null buffer or with a    *)
(* capacity below digestSize() returns false and changes neither the       *)
(* buffer, the object nor its accumulator; a later finalize with a buffer  *)
(* that fits (and an engine that finalizes) returns true and writes the    *)
(* digest of the bytes sent.                                               *)
C4_BufferBound ==
    [][\A h \in HasherIds :
         (call'.h = h /\ call'.op = "finalize" /\ ~hashers[h].isFinalized_)
         => /\ call'.arg \in {"null", "short"}
               => /\ call'.ret = FALSE
                  /\ outbuf'[h] = outbuf[h]
                  /\ hashers'[h] = hashers[h]
                  /\ heap' = heap
            /\ (call'.arg = "fits" /\ hist[h].badFin /\ call'.eng)
               => /\ call'.ret = TRUE
                  /\ hashers'[h].isFinalized_
                  /\ ~hist[h].engFail
                     => DigestWrittenIn(hashers'[h], outbuf'[h])
                          = CorrectDigestFor(hashers'[h], hist'[h].sent)]_vars

\* a finalize succeeded on a hasher that had a finalize refused for its buffer
C4_Witness ==
    \E h \in HasherIds :
        /\ hist[h].badFin /\ hist[h].finOk /\ ~hist[h].engFail
        /\ call.op = "finalize" /\ call.ret
        /\ Len(hist[h].sent) > 0

(* C5: consume with a null data pointer returns false and changes neither  *)
(* the accumulator nor the finalized flag, whatever the count; consume on  *)
(* an Active hasher with a non-null pointer and count 0 returns true and   *)
(* leaves the accumulator unchanged.                                       *)
C5_ConsumeNullAndEmpty ==
    [][\A h \in HasherIds :
         (call'.h = h /\ call'.op = "consume")
         => /\ call'.arg = "null"
               => /\ call'.ret = FALSE
                  /\ hashers'[h] = hashers[h]
                  /\ heap' = heap
            /\ (call'.arg = "empty" /\ ~hashers[h].isFinalized_)
               => /\ call'.ret = TRUE
                  /\ hashers'[h] = hashers[h]
                  /\ heap' = heap]_vars

\* a consume with a null pointer was refused by an Active hasher holding bytes
C5_Witness ==
    \E h \in HasherIds :
        /\ call.h = h /\ call.op = "consume" /\ call.arg = "null" /\ ~call.ret
        /\ ~hashers[h].isFinalized_
        /\ Len(hist[h].sent) > 0

(* C6 (as claimed): when the engine's update reports failure for a consume *)
(* call on an Active hasher with non-null data, consume returns false.     *)
C6_ConsumePropagates ==
    (call.op = "consume" /\ ~call.eng) => call.ret = FALSE

(* C7 (as claimed): copy-assignment from another wrapper that holds a      *)
(* context leaves the destination holding a live context of its own,       *)
(* distinct from the source's, with the source's algorithm and absorbed    *)
(* bytes.                                                                  *)
C7_CopyAssignDeepCopies ==
    [][(call'.op = "h_copy_assign" /\ call'.dst # call'.src
          /\ handles[call'.src].context_ # NullCtx)
       => LET d == handles'[call'.dst].context_
              s == handles[call'.src].context_
          IN  /\ d # NullCtx
              /\ d # s
              /\ heap'[d].st = "live"
              /\ heap'[d].digest = heap[s].digest
              /\ heap'[d].acc = heap[s].acc]_vars

C9_ExclusiveReleaseOnce ==
    /\ \A a \in HandleIds, b \in HandleIds :
         (a # b /\ handles[a].live /\ handles[b].live
            /\ handles[a].context_ # NullCtx)
         => handles[a].context_ # handles[b].context_
    /\ \A c \in CtxIds : heap[c].nfree <= 1
    /\ (~crashed /\ \A w \in HandleIds : ~handles[w].live)
       => \A c \in CtxIds : heap[c].st # "unalloc" => heap[c].nfree = 1

(* C10: a copy-constructed hasher starts with the original's accumulator   *)
(* and finalized flag; a consume or finalize on one of the two leaves the  *)
(* other's object and accumulator unchanged; and each, once finalized,     *)
(* holds the digest of the bytes sent to it (the original's prefix and     *)
(* its own suffix), the one a fresh hasher gives for that sequence.        *)
C10_DeepCopyIsolation ==
    [][/\ \A h \in HasherIds :
            hist'[h].finOk
            => DigestWrittenIn(hashers'[h], outbuf'[h])
                 = CorrectDigestFor(hashers'[h], hist'[h].sent)
       /\ \A h \in HasherIds, g \in HasherIds :
            (g # h /\ call'.h = h /\ call'.op \in {"consume", "finalize"}
               /\ hashers[g].kind # "none")
            => /\ hashers'[g] = hashers[g]
               /\ AccIn(hashers'[g], heap') = AccIn(hashers[g], heap)
       /\ (call'.op = "copy" /\ call'.ret)
          => /\ AccIn(hashers'["copy"], heap') = AccIn(hashers["orig"], heap)
             /\ AccIn(hashers'["orig"], heap') = AccIn(hashers["orig"], heap)
             /\ hashers'["copy"].isFinalized_ = hashers["orig"].isFinalized_
             /\ hashers'["copy"].kind = "evp"
                => hashers'["copy"].context_ # hashers'["orig"].context_]_vars

\* an EvpHasher and its copy, made after one byte, each took a different
\* second byte and both were finalized
C10_Witness ==
    /\ hashers["orig"].kind = "evp" /\ hashers["copy"].kind = "evp"
    /\ hist["orig"].finOk /\ hist["copy"].finOk
    /\ hist["copy"].pre = 1
    /\ Len(hist["orig"].sent) = 2 /\ Len(hist["copy"].sent) = 2
    /\ hist["orig"].sent # hist["copy"].sent

(* C11 (as claimed): the construction of an EvpHasher either completes,    *)
(* leaving a hasher whose context is live and initialised for the          *)
(* algorithm its name resolves to, or raises invalid-argument or a runtime *)
(* error (a failed context acquisition included); when it raises, no       *)
(* hasher object exists and no context acquired by it is still held.       *)
C11_ConstructionAllOrNothing ==
    \A h \in HasherIds :
        (call.op = "new" /\ call.h = h /\ hashers[h].kind # "crc32")
        => IF call.ret
           THEN /\ hashers[h].kind = "evp"
                /\ hashers[h].context_ # NullCtx
                /\ heap[hashers[h].context_].st = "live"
                /\ hashers[h].digest_type_ = EVP_get_digestbyname(hashers[h].name_)
                /\ hashers[h].digest_type_ # NoDigest
                /\ heap[hashers[h].context_].digest = hashers[h].digest_type_
           ELSE /\ call.arg \in {"invalid_argument", "runtime_error"}
                /\ hashers[h] = NoHasher
                /\ \A c \in CtxIds : heap[c].st # "live"

(* ------------------- a Crc32Hasher fed the check input ---------------- *)

\* the nine ASCII bytes "123456789"
CheckInput == <<49, 50, 51, 52, 53, 54, 55, 56, 57>>

\* h.consume(p, n), p pointing at the part of CheckInput not yet sent
ConsumeVectorCall(h, n) ==
    LET hs == hashers[h]
        pos == Len(hist[h].sent)
        data == SubSeq(CheckInput, pos + 1, pos + n)
        r == Hasher_consume(hs, heap, FALSE, data, TRUE)
    IN  /\ ~crashed
        /\ hs.kind = "crc32"
        /\ ~hist[h].finOk
        /\ pos + n <= Len(CheckInput)
        /\ hashers' = [hashers EXCEPT ![h] = r.h]
        /\ heap' = r.heap
        /\ hist' = [hist EXCEPT
                      ![h].sent = IF r.ret THEN @ \o data ELSE @,
                      ![h].parts = IF r.ret /\ data # <<>> THEN @ + 1 ELSE @]
        /\ call' = HasherCall("consume", h, r.ret,
                            IF data = <<>> THEN "empty" ELSE "data", TRUE)
        /\ UNCHANGED <<outbuf, crashed, handles, threads, driver, util, files>>

(* A fresh Crc32Hasher takes a prefix of CheckInput in chunks of any       *)
(* length and is finalized into a buffer of four bytes.                    *)
VectorNext ==
    \/ NewCrc32("orig")
    \/ \E n \in 0..Len(CheckInput) : ConsumeVectorCall("orig", n)
    \/ FinalizeCall("orig", FALSE, Crc32DigestSize, TRUE)
    \/ Destroy("orig")

VectorSpec == Init /\ [][VectorNext]_vars

(* C12: a fresh Crc32Hasher finalized with no input writes 00 00 00 00;    *)
(* one that consumed the nine bytes "123456789", in whatever chunks,       *)
(* writes CB F4 39 26.                                                     *)
C12_KnownVectors ==
    \A h \in HasherIds :
        (hashers[h].kind = "crc32" /\ hist[h].finOk)
        => /\ hist[h].sent = <<>>
              => outbuf[h] = <<(<<0>>), (<<0>>), (<<0>>), (<<0>>)>>
           /\ hist[h].sent = CheckInput
              => outbuf[h] = <<(<<203>>), (<<244>>), (<<57>>), (<<38>>)>>

\* the nine bytes were taken in three or more chunks and the hasher finalized
C12_Witness ==
    \E h \in HasherIds :
        /\ hashers[h].kind = "crc32" /\ hist[h].finOk
        /\ hist[h].sent = CheckInput
        /\ hist[h].parts >= 3

(* ---------------- finalize over the values of the register ------------ *)

\* the values of one byte of the register: no bit, one nibble, all bits
RegisterBytes == {0, 15, 240, 255}

\* register values a Crc32Hasher can hold after consuming input (the byte
\* update is a bijection on the register, so every 32-bit value is reached)
Registers == {<<a, b, c, d>> : a \in RegisterBytes, b \in RegisterBytes,
                               c \in RegisterBytes, d \in RegisterBytes}

\* a caller's buffer that received a sha256 digest before
PriorBuf == EngineDigest("sha256", <<>>)

\* a Crc32Hasher that has consumed input, and the buffer its caller holds
RegisterInit ==
    /\ \E r \in Registers :
         hashers = [h \in HasherIds |->
                      IF h = "orig" THEN [Crc32Hasher_ctor EXCEPT !.partial_ = r]
                      ELSE NoHasher]
    /\ \E b \in {FreshBuf, PriorBuf} :
         outbuf = [h \in HasherIds |-> IF h = "orig" THEN b ELSE FreshBuf]
    /\ heap = [c \in CtxIds |-> UnallocCtx]
    /\ hist = [h \in HasherIds |-> NewHist]
    /\ call = NoCall
    /\ crashed = FALSE
    /\ handles = [w \in HandleIds |-> DeadHandle]
    /\ threads = [h \in HasherIds |-> NoThread]
    /\ driver = NoDriver
    /\ util = NoUtil
    /\ files = NoFiles

RegisterNext == Finalize("orig")

RegisterSpec == RegisterInit /\ [][RegisterNext]_vars

(* C13: a finalize that succeeds on a Crc32Hasher writes exactly four      *)
(* bytes: byte k (k = 0..3) is the complement of bits 31-8k..24-8k of the  *)
(* register, all eight bits kept, so the two 16-bit halves of register XOR *)
(* 0xFFFFFFFF are read back from the bytes; what the buffer held beyond    *)
(* index 3 is left as it was.                                              *)
C13_FinalizeBigEndian ==
    [][\A h \in HasherIds :
         (call'.op = "finalize" /\ call'.h = h /\ call'.ret
            /\ hashers[h].kind = "crc32")
         => LET p == hashers[h].partial_
                b == outbuf'[h]
            IN  /\ Len(b) = IF Len(outbuf[h]) > 4 THEN Len(outbuf[h]) ELSE 4
                /\ \A k \in 1..4 : b[k] = <<255 - p[k]>>
                /\ b[1][1] * 256 + b[2][1] = 65535 - (p[1] * 256 + p[2])
                /\ b[3][1] * 256 + b[4][1] = 65535 - (p[3] * 256 + p[4])
                /\ \A k \in 5..Len(outbuf[h]) : b[k] = outbuf[h][k]]_vars

\* a digest whose bytes differ and have bits in the high nibble was written
\* over the start of a buffer that held 32 bytes
C13_Witness ==
    /\ call.op = "finalize" /\ call.ret
    /\ hashers["orig"].kind = "crc32"
    /\ Len(outbuf["orig"]) = 32
    /\ outbuf["orig"][1] = <<240>>
    /\ outbuf["orig"][4] = <<15>>
    /\ outbuf["orig"][5] = PriorBuf[5]

(* ------------- two threads, each driving a hasher of its own ---------- *)
(* Thread t owns the hasher in slot t and sends it threads[t].input, the   *)
(* same bytes in both threads, in chunks of its choosing.  A step is one   *)
(* engine call or one statement of Crc32Hasher::consumeImpl, so that the   *)
(* statements of two consume calls interleave.  crc32Lut is a constexpr    *)
(* object: it is a constant here as it is in the program.                  *)

\* a consumeImpl whose partial_next is read from the first instance (mutant)
Crc32LoadShared(hsAll, t) == hsAll["orig"].partial_

\* uint32_t partial_next = partial_;
Crc32LoadPartial(hsAll, t) == hsAll[t].partial_

\* the byte sequences the two threads are given
ConcInputs == SeqsUpTo(ByteVals, MaxFed)

ConcInit ==
    /\ hashers = [h \in HasherIds |-> NoHasher]
    /\ heap = [c \in CtxIds |-> UnallocCtx]
    /\ outbuf = [h \in HasherIds |-> FreshBuf]
    /\ hist = [h \in HasherIds |-> NewHist]
    /\ call = NoCall
    /\ crashed = FALSE
    /\ handles = [w \in HandleIds |-> DeadHandle]
    /\ \E in \in ConcInputs :
         threads = [h \in HasherIds |-> [NoThread EXCEPT !.input = in]]
    /\ driver = NoDriver
    /\ util = NoUtil
    /\ files = NoFiles

\* thread t constructs its hasher
TNew(t) ==
    \/ NewCrc32(t)
    \/ NewEvpCall(t, "sha256", TRUE, TRUE, "throw")

\* thread t calls consume(p, n) on its Crc32Hasher: the tests of
\* Hasher::consume pass and consumeImpl loads partial_
TCrcEnter(t, n) ==
    LET th == threads[t]
    IN  /\ ~crashed
        /\ hashers[t].kind = "crc32"
        /\ ~hashers[t].isFinalized_
        /\ th.pc = "idle"
        /\ th.pos + n <= Len(th.input)
        /\ threads' = [threads EXCEPT ![t] =
                         [th EXCEPT !.pc = "loop",
                                    !.pos = th.pos + n,
                                    !.data = SubSeq(th.input, th.pos + 1, th.pos + n),
                                    !.partial_next = Crc32LoadPartial(hashers, t)]]
        /\ call' = HasherCall("consume_enter", t, TRUE, "data", TRUE)
        /\ UNCHANGED <<hashers, heap, outbuf, hist, crashed, handles, driver, util, files>>

\* one turn of the loop of consumeImpl in thread t
TCrcLoop(t) ==
    LET th == threads[t]
    IN  /\ th.pc = "loop"
        /\ th.data # <<>>
        /\ threads' = [threads EXCEPT ![t] =
                         [th EXCEPT !.partial_next = Crc32Step(th.partial_next, Head(th.data)),
                                    !.data = Tail(th.data)]]
        /\ call' = HasherCall("consume_loop", t, TRUE, "data", TRUE)
        /\ UNCHANGED <<hashers, heap, outbuf, hist, crashed, handles, driver, util, files>>

\* partial_ = partial_next; consumeImpl and consume return in thread t
TCrcExit(t) ==
    LET th == threads[t]
    IN  /\ th.pc = "loop"
        /\ th.data = <<>>
        /\ hashers' = [hashers EXCEPT ![t].partial_ = th.partial_next]
        /\ threads' = [threads EXCEPT ![t] = [th EXCEPT !.pc = "idle", !.partial_next = Zero32]]
        /\ hist' = [hist EXCEPT
                      ![t].sent = SubSeq(th.input, 1, th.pos),
                      ![t].parts = @ + 1]
        /\ call' = HasherCall("consume", t, TRUE, "data", TRUE)
        /\ UNCHANGED <<heap, outbuf, crashed, handles, driver, util, files>>

\* thread t calls consume(p, n) on its EvpHasher: one engine call
TEvpConsume(t, n) ==
    LET th == threads[t]
        data == SubSeq(th.input, th.pos + 1, th.pos + n)
        r == Hasher_consume(hashers[t], heap, FALSE, data, TRUE)
    IN  /\ ~crashed
        /\ hashers[t].kind = "evp"
        /\ ~hashers[t].isFinalized_
        /\ th.pc = "idle"
        /\ th.pos + n <= Len(th.input)
        /\ hashers' = [hashers EXCEPT ![t] = r.h]
        /\ heap' = r.heap
        /\ threads' = [threads EXCEPT ![t].pos = th.pos + n]
        /\ hist' = [hist EXCEPT ![t].sent = @ \o data, ![t].parts = @ + 1]
        /\ call' = HasherCall("consume", t, r.ret, "data", TRUE)
        /\ UNCHANGED <<outbuf, crashed, handles, driver, util, files>>

\* thread t has sent its input and finalizes into its own buffer
TFinalize(t) ==
    /\ threads[t].pc = "idle"
    /\ threads[t].pos = Len(threads[t].input)
    /\ ~hashers[t].isFinalized_
    /\ FinalizeCall(t, FALSE, hash_max_digest_size, TRUE)

ConcNext ==
    \E t \in HasherIds :
        \/ TNew(t)
        \/ \E n \in 1..MaxChunk : TCrcEnter(t, n)
        \/ TCrcLoop(t)
        \/ TCrcExit(t)
        \/ \E n \in 1..MaxChunk : TEvpConsume(t, n)
        \/ TFinalize(t)

ConcSpec == ConcInit /\ [][ConcNext]_vars

(* C14: two threads each feed a hasher of their own the same input, their  *)
(* steps interleaved in every way; each hasher, once finalized, holds the  *)
(* digest a single-threaded run gives for that input, and a step of one    *)
(* thread changes neither the other hasher's object, accumulator or buffer *)
(* nor the other thread's locals.                                          *)
C14_IndependentThreads ==
    [][/\ \A t \in HasherIds :
            hist'[t].finOk
            => DigestWrittenIn(hashers'[t], outbuf'[t])
                 = CorrectDigestFor(hashers'[t], threads'[t].input)
       /\ \A t \in HasherIds, g \in HasherIds :
            (g # t /\ call'.h = t)
            => /\ hashers'[g] = hashers[g]
               /\ AccIn(hashers'[g], heap') = AccIn(hashers[g], heap)
               /\ outbuf'[g] = outbuf[g]
               /\ threads'[g] = threads[g]]_vars

\* both hashers are finalized Crc32Hashers over two bytes, fed in two chunks
\* by one thread and in one chunk by the other
C14_Witness ==
    /\ hashers["orig"].kind = "crc32" /\ hashers["copy"].kind = "crc32"
    /\ hist["orig"].finOk /\ hist["copy"].finOk
    /\ Len(threads["orig"].input) = 2
    /\ hist["orig"].parts = 2 /\ hist["copy"].parts = 1

(* --------------------- hex rendering of a digest ---------------------- *)
(* A character is its code: '0' is 48, '9' 57, 'A' 65, 'F' 70, 'a' 97 and  *)
(* 'f' 102.  A string is the sequence of its characters.                  *)

\* hexDigitValue(c)
hexDigitValue(c) ==
    IF c >= 48 /\ c <= 57 THEN c - 48
    ELSE IF c >= 97 /\ c <= 102 THEN c - 97 + 10
    ELSE IF c >= 65 /\ c <= 70 THEN c - 65 + 10
    ELSE -1

\* valueToHexDigit(n): assert(n > 0 && n < 16) aborts the process unless the
\* build defines NDEBUG
valueToHexDigit(n, ndebug) ==
    IF ~ndebug /\ ~(n > 0 /\ n < 16) THEN [out |-> "assert", c |-> 0]
    ELSE IF n < 10 THEN [out |-> "ok", c |-> 48 + n]
    ELSE [out |-> "ok", c |-> 97 + (n - 10)]

\* bytesToStr(buf, count): ret[i * 2] is the digit of (buf[i] >> 4) & 0xF and
\* ret[i * 2 + 1] that of buf[i] & 0xF
bytesToStr(buf, count, ndebug) ==
    LET digit(k) == valueToHexDigit(IF k % 2 = 1 THEN (buf[(k + 1) \div 2] \div 16) % 16
                                    ELSE buf[k \div 2] % 16, ndebug)
    IN  IF \E k \in 1..(2 * count) : digit(k).out = "assert"
        THEN [out |-> "assert", str |-> <<>>]
        ELSE [out |-> "ok", str |-> [k \in 1..(2 * count) |-> digit(k).c]]

\* strToBytes(sv): an empty optional for an odd length or a character that
\* is no hex digit
strToBytes(sv) ==
    IF Len(sv) % 2 # 0 THEN [some |-> FALSE, vec |-> <<>>]
    ELSE IF \E k \in 1..Len(sv) : hexDigitValue(sv[k]) = -1
    THEN [some |-> FALSE, vec |-> <<>>]
    ELSE [some |-> TRUE,
          vec |-> [i \in 1..(Len(sv) \div 2) |->
                     (hexDigitValue(sv[2 * i - 1]) * 16 + hexDigitValue(sv[2 * i])) % 256]]

(* ------------------------------- main() ------------------------------- *)
(* The driver from the split of the algorithm list on: it constructs one   *)
(* hasher per name, opens the file, feeds every chunk read to every        *)
(* hasher, finalizes each into a buffer of hash_max_digest_size bytes and  *)
(* prints one line per hasher.  status is "ok" (return 0), "fail" (return  *)
(* -1), "terminated" (an exception left main), "aborted" (an assertion     *)
(* failed) or "crashed".                                                   *)

\* names in the algorithm list at once
MaxAlgos == 2

inBufSize == 4096

\* the names a user can put in the list
DriverNames == {"crc32"} \cup AlgoNames

AlgoLists == {q \in SeqsUpTo(DriverNames, MaxAlgos) : q # <<>>}

FileContents == SeqsUpTo(ByteVals, MaxFed)

\* a selection that falls back to CRC32 for a name the engine does not
\* resolve (mutant)
MakeHasher_fallback(hp, algoName, allocOk, initOk, ub) ==
    IF algoName = "crc32" \/ EVP_get_digestbyname(algoName) = NoDigest
    THEN [heap |-> hp, h |-> Crc32Hasher_ctor, out |-> "ok"]
    ELSE EvpHasher_ctor(hp, algoName, allocOk, initOk, ub)

\* the body of the construction loop for one name
MakeHasher(hp, algoName, allocOk, initOk, ub) ==
    IF algoName = "crc32"
    THEN [heap |-> hp, h |-> Crc32Hasher_ctor, out |-> "ok"]
    ELSE EvpHasher_ctor(hp, algoName, allocOk, initOk, ub)

\* the heap after the hashers of the vector hs are destroyed
RECURSIVE DestroyAll(_, _)
DestroyAll(hs, hp) ==
    IF hs = <<>> THEN hp ELSE DestroyAll(Tail(hs), Hasher_dtor(Head(hs), hp))

\* main() returns code: its locals are destroyed
DriverReturn(d, code) ==
    [d EXCEPT !.status = code, !.pc = "off", !.hashers = <<>>, !.digests = <<>>,
              !.inBuf = <<>>]

DriverInit ==
    /\ hashers = [h \in HasherIds |-> NoHasher]
    /\ heap = [c \in CtxIds |-> UnallocCtx]
    /\ outbuf = [h \in HasherIds |-> FreshBuf]
    /\ hist = [h \in HasherIds |-> NewHist]
    /\ call = NoCall
    /\ crashed = FALSE
    /\ handles = [w \in HandleIds |-> DeadHandle]
    /\ threads = [h \in HasherIds |-> NoThread]
    /\ util = NoUtil
    /\ files = NoFiles
    /\ \E a \in AlgoLists, f \in FileContents, nd \in BOOLEAN :
         driver = [NoDriver EXCEPT !.pc = "construct", !.i = 1, !.algoEls = a,
                                   !.file = f, !.status = "running", !.ndebug = nd]

\* for (algoName : algoEls): push_back(make_unique<...>), one name per step;
\* an exception is not caught in main
DConstruct ==
    /\ driver.status = "running"
    /\ driver.pc = "construct"
    /\ driver.algoEls[driver.i] # "crc32" => HasFreshCtx(heap)
    /\ \E allocOk \in BOOLEAN, initOk \in BOOLEAN, ub \in UbOutcomes :
         LET r == MakeHasher(heap, driver.algoEls[driver.i], allocOk, initOk, ub)
             last == driver.i = Len(driver.algoEls)
         IN  /\ heap' = r.heap
             /\ driver' =
                  IF r.out = "ok"
                  THEN [driver EXCEPT !.hashers = Append(@, r.h),
                                      !.i = IF last THEN 1 ELSE @ + 1,
                                      !.pc = IF last THEN "open" ELSE @]
                  ELSE [driver EXCEPT !.status = IF r.out = "crash" THEN "crashed"
                                                 ELSE "terminated"]
    /\ UNCHANGED <<hashers, outbuf, hist, call, crashed, handles, threads, util, files>>

\* the input file is opened, or main returns -1
DOpen ==
    /\ driver.status = "running"
    /\ driver.pc = "open"
    /\ \E ok \in BOOLEAN :
         IF ok
         THEN /\ driver' = [driver EXCEPT !.pc = "read"]
              /\ heap' = heap
         ELSE /\ driver' = DriverReturn(driver, "fail")
              /\ heap' = DestroyAll(driver.hashers, heap)
    /\ UNCHANGED <<hashers, outbuf, hist, call, crashed, handles, threads, util, files>>

\* bytesRead = fread(inBuf, 1, inBufSize, fp): some bytes, end of file, or
\* a read error
DRead ==
    /\ driver.status = "running"
    /\ driver.pc = "read"
    /\ \/ \E n \in 1..Len(driver.file) :
            /\ n <= inBufSize
            /\ driver' = [driver EXCEPT
                            !.inBuf = SubSeq(driver.file, 1, n),
                            !.file = SubSeq(@, n + 1, Len(@)),
                            !.pc = "consume", !.i = 1,
                            !.log = Append(@, DriverEvent("read", 0,
                                                          SubSeq(driver.file, 1, n), TRUE))]
            /\ heap' = heap
       \/ /\ driver.file = <<>>
          /\ driver' = [driver EXCEPT !.pc = "finalize", !.i = 1, !.inBuf = <<>>,
                                      !.log = Append(@, DriverEvent("eof", 0, <<>>, TRUE))]
          /\ heap' = heap
       \/ /\ driver' = DriverReturn([driver EXCEPT
                            !.log = Append(@, DriverEvent("readerr", 0, <<>>, FALSE))],
                                     "fail")
          /\ heap' = DestroyAll(driver.hashers, heap)
    /\ UNCHANGED <<hashers, outbuf, hist, call, crashed, handles, threads, util, files>>

\* an inner loop that passes the chunk to the first hasher only (mutant)
DConsume_first ==
    /\ driver.status = "running"
    /\ driver.pc = "consume"
    /\ \E engOk \in BOOLEAN :
         LET r == Hasher_consume(driver.hashers[driver.i], heap, FALSE, driver.inBuf, engOk)
             d == [driver EXCEPT !.log = Append(@, DriverEvent("consume", driver.i,
                                                               driver.inBuf, r.ret))]
         IN  IF r.ret
             THEN /\ driver' = [d EXCEPT !.hashers[driver.i] = r.h, !.i = 1, !.pc = "read"]
                  /\ heap' = r.heap
             ELSE /\ driver' = DriverReturn(d, "fail")
                  /\ heap' = DestroyAll(driver.hashers, r.heap)
    /\ UNCHANGED <<hashers, outbuf, hist, call, crashed, handles, threads, util, files>>

\* hasher->consume(inBuf, bytesRead) for hasher i of the inner loop
DConsume ==
    /\ driver.status = "running"
    /\ driver.pc = "consume"
    /\ \E engOk \in BOOLEAN :
         LET r == Hasher_consume(driver.hashers[driver.i], heap, FALSE, driver.inBuf, engOk)
             last == driver.i = Len(driver.hashers)
             d == [driver EXCEPT !.log = Append(@, DriverEvent("consume", driver.i,
                                                               driver.inBuf, r.ret))]
         IN  IF r.ret
             THEN /\ driver' = [d EXCEPT !.hashers[driver.i] = r.h,
                                         !.i = IF last THEN 1 ELSE @ + 1,
                                         !.pc = IF last THEN "read" ELSE @]
                  /\ heap' = r.heap
             ELSE /\ driver' = DriverReturn(d, "fail")
                  /\ heap' = DestroyAll(driver.hashers, r.heap)
    /\ UNCHANGED <<hashers, outbuf, hist, call, crashed, handles, threads, util, files>>

\* a finalize loop that goes on after finalize returned false (mutant)
DFinalize_ignore ==
    /\ driver.status = "running"
    /\ driver.pc = "finalize"
    /\ \E engOk \in BOOLEAN :
         LET r == Hasher_finalize(driver.hashers[driver.i], heap, FreshBuf, FALSE,
                                  hash_max_digest_size, engOk)
             last == driver.i = Len(driver.hashers)
         IN  /\ driver' = [driver EXCEPT
                             !.log = Append(@, DriverEvent("finalize", driver.i, <<>>, r.ret)),
                             !.hashers[driver.i] = r.h,
                             !.digests = Append(@, r.buf),
                             !.i = IF last THEN 1 ELSE @ + 1,
                             !.pc = IF last THEN "print" ELSE @]
             /\ heap' = heap
    /\ UNCHANGED <<hashers, outbuf, hist, call, crashed, handles, threads, util, files>>

\* digests.push_back(new buffer); hasher->finalize(it, hash_max_digest_size)
DFinalize ==
    /\ driver.status = "running"
    /\ driver.pc = "finalize"
    /\ \E engOk \in BOOLEAN :
         LET r == Hasher_finalize(driver.hashers[driver.i], heap, FreshBuf, FALSE,
                                  hash_max_digest_size, engOk)
             last == driver.i = Len(driver.hashers)
             d == [driver EXCEPT !.log = Append(@, DriverEvent("finalize", driver.i,
                                                               <<>>, r.ret))]
         IN  IF r.ret
             THEN /\ driver' = [d EXCEPT !.hashers[driver.i] = r.h,
                                         !.digests = Append(@, r.buf),
                                         !.i = IF last THEN 1 ELSE @ + 1,
                                         !.pc = IF last THEN "print" ELSE @]
                  /\ heap' = heap
             ELSE /\ driver' = DriverReturn(d, "fail")
                  /\ heap' = DestroyAll(driver.hashers, heap)
    /\ UNCHANGED <<hashers, outbuf, hist, call, crashed, handles, threads, util, files>>

\* bytesToStr over the cells of a digest: the cells a Crc32Hasher wrote hold
\* their byte; of a cell the engine wrote only its place in the digest is
\* known, so zeroNibble tells whether that digest has a nibble that is 0, and
\* its two characters are the cell marked 1 (high nibble) and 2 (low nibble)
RenderDigest(hs, cells, ndebug, zeroNibble) ==
    IF hs.kind = "crc32"
    THEN bytesToStr([k \in 1..Len(cells) |-> cells[k][1]], Len(cells), ndebug)
    ELSE IF zeroNibble /\ ~ndebug THEN [out |-> "assert", str |-> <<>>]
    ELSE [out |-> "ok",
          str |-> [k \in 1..(2 * Len(cells)) |->
                     <<2 - (k % 2)>> \o cells[(k + 1) \div 2]]]

\* printf("%s: %s\n", getName(), bytesToStr(digests[i], getDigestSize()));
\* after the last line main returns 0; a failed assertion in valueToHexDigit
\* aborts the process
DPrint ==
    /\ driver.status = "running"
    /\ driver.pc = "print"
    /\ \E zeroNibble \in BOOLEAN :
         LET hs == driver.hashers[driver.i]
             cells == SubSeq(driver.digests[driver.i], 1, Hasher_getDigestSize(hs))
             r == RenderDigest(hs, cells, driver.ndebug, zeroNibble)
             line == [name |-> Hasher_getName(hs), digest |-> cells, str |-> r.str]
             d == [driver EXCEPT !.printed = Append(@, line), !.i = @ + 1]
         IN  IF r.out = "assert"
             THEN /\ driver' = [driver EXCEPT !.status = "aborted"]
                  /\ heap' = heap
             ELSE IF driver.i = Len(driver.hashers)
             THEN /\ driver' = DriverReturn(d, "ok")
                  /\ heap' = DestroyAll(driver.hashers, heap)
             ELSE /\ driver' = d
                  /\ heap' = heap
    /\ UNCHANGED <<hashers, outbuf, hist, call, crashed, handles, threads, util, files>>

DriverNext ==
    \/ DConstruct
    \/ DOpen
    \/ DRead
    \/ DConsume
    \/ DFinalize
    \/ DPrint

DriverSpec == DriverInit /\ [][DriverNext]_vars

\* algoName is the literal "crc32" or a name the engine resolves
Recognized(algoName) ==
    algoName = "crc32" \/ EVP_get_digestbyname(algoName) # NoDigest

(* C15: in the driver, hasher k is a Crc32Hasher exactly when name k of    *)
(* the list is the literal "crc32", and otherwise an EvpHasher of the      *)
(* algorithm the engine resolves that name to; a list holding a name the   *)
(* engine does not resolve never gets a hasher for that name, never leaves *)
(* the construction loop except by a construction failure, and prints no   *)
(* digest; a printed line carries the name asked for and a digest of that  *)
(* algorithm's size.                                                       *)
C15_AlgorithmSelection ==
    /\ \A k \in 1..Len(driver.hashers) :
         LET hs == driver.hashers[k]
             algoName == driver.algoEls[k]
         IN  /\ (algoName = "crc32") <=> (hs.kind = "crc32")
             /\ hs.kind # "crc32"
                => /\ hs.kind = "evp"
                   /\ hs.name_ = algoName
                   /\ hs.digest_type_ = EVP_get_digestbyname(algoName)
                   /\ hs.digest_type_ # NoDigest
    /\ \A k \in 1..Len(driver.algoEls) :
         ~Recognized(driver.algoEls[k])
         => /\ Len(driver.hashers) < k
            /\ driver.pc = "construct"
            /\ driver.status \in {"running", "terminated", "crashed"}
            /\ driver.printed = <<>>
    /\ \A k \in 1..Len(driver.printed) :
         /\ driver.printed[k].name = driver.algoEls[k]
         /\ Len(driver.printed[k].digest) =
              IF driver.algoEls[k] = "crc32" THEN Crc32DigestSize
              ELSE EVP_MD_size(EVP_get_digestbyname(driver.algoEls[k]))

\* the run over the list crc32,bogus ended in the construction of the
\* second hasher, after the first was made, with nothing printed
C15_Witness ==
    /\ driver.algoEls = <<"crc32", "bogus">>
    /\ driver.status = "terminated"
    /\ Len(driver.hashers) = 1
    /\ driver.printed = <<>>

(* C16: every hasher the driver constructs has a digest size of at most    *)
(* hash_max_digest_size, so that finalize with a fresh non-null buffer of  *)
(* hash_max_digest_size bytes succeeds on it while it is Active whenever   *)
(* the engine finalizes, and the digest it wrote lies within the buffer.   *)
C16_MaxDigestSize ==
    \A k \in 1..Len(driver.hashers) :
        LET hs == driver.hashers[k]
        IN  /\ Hasher_getDigestSize(hs) <= hash_max_digest_size
            /\ ~hs.isFinalized_
               => Hasher_finalize(hs, heap, FreshBuf, FALSE, hash_max_digest_size, TRUE).ret
            /\ k <= Len(driver.digests)
               => /\ Len(driver.digests[k]) = Hasher_getDigestSize(hs)
                  /\ Len(driver.digests[k]) <= hash_max_digest_size

\* a Crc32Hasher and a sha256 EvpHasher were both finalized into buffers of
\* hash_max_digest_size bytes
C16_Witness ==
    /\ driver.pc = "print"
    /\ Len(driver.digests) = 2
    /\ driver.hashers[1].kind = "crc32" /\ Len(driver.digests[1]) = 4
    /\ driver.hashers[2].kind = "evp" /\ Len(driver.digests[2]) = 32

(* C17: reset on a Crc32Hasher that has not been finalized returns true    *)
(* and leaves the object as the constructor makes it, the register at      *)
(* 0xFFFFFFFF, whatever it had consumed; from then on the register is the  *)
(* one a fresh Crc32Hasher has after the bytes consumed since, and so is   *)
(* the digest finalize writes.                                             *)
C17_ResetDiscardsInput ==
    [][\A h \in HasherIds :
         /\ (call'.op = "reset" /\ call'.h = h /\ hashers[h].kind = "crc32"
               /\ ~hashers[h].isFinalized_)
            => /\ call'.ret = TRUE
               /\ hashers'[h].partial_ = <<255, 255, 255, 255>>
               /\ hashers'[h] = Crc32Hasher_ctor
               /\ hist'[h].sent = <<>>
         /\ hashers'[h].kind = "crc32"
            => /\ hashers'[h].partial_ = Crc32ConsumeImpl(base, hist'[h].sent)
               /\ hist'[h].finOk
                  => DigestWrittenIn(hashers'[h], outbuf'[h])
                       = CrcCells(Crc32ConsumeImpl(base, hist'[h].sent))]_vars

\* a Crc32Hasher that had consumed bytes and was not finalized was reset
C17_Witness ==
    \E h \in HasherIds :
        /\ call.op = "reset" /\ call.h = h /\ call.arg = "fed" /\ call.ret
        /\ hashers[h].kind = "crc32"
        /\ hashers[h].partial_ = base

(* --------------------------- the observers ---------------------------- *)

\* h.getDigestSize(): a const member function, it returns a number
GetDigestSize(h) ==
    /\ ~crashed
    /\ hashers[h].kind # "none"
    /\ call' = [HasherCall("getDigestSize", h, TRUE, "", TRUE)
                  EXCEPT !.val = Hasher_getDigestSize(hashers[h])]
    /\ UNCHANGED <<hashers, heap, outbuf, hist, crashed, handles, threads, driver, util, files>>

\* h.getName(): a const member function, it returns a string
GetName(h) ==
    /\ ~crashed
    /\ hashers[h].kind # "none"
    /\ call' = HasherCall("getName", h, TRUE, Hasher_getName(hashers[h]), TRUE)
    /\ UNCHANGED <<hashers, heap, outbuf, hist, crashed, handles, threads, driver, util, files>>

(* The life of one hasher, fed byte by byte and finalized with every       *)
(* buffer argument, with the observers called at every point.              *)
ObserverNext ==
    \/ NewCrc32("orig")
    \/ NewEvp("orig")
    \/ \E b \in ByteVals : ConsumeCall("orig", FALSE, <<b>>, TRUE)
    \/ Finalize("orig")
    \/ Reset("orig")
    \/ Destroy("orig")
    \/ GetDigestSize("orig")
    \/ GetName("orig")

ObserverSpec == Init /\ [][ObserverNext]_vars

(* C18: a call of getDigestSize() or getName(), in the Active or the       *)
(* Finalized state, changes neither the object (finalized flag, register), *)
(* nor its accumulator in the engine, nor the caller's buffer; the number  *)
(* getDigestSize() returns depends only on the algorithm the object was    *)
(* constructed for (4 for Crc32Hasher), which no call changes, so it is    *)
(* the same before and after consume, finalize and reset.                  *)
C18_PureObservers ==
    [][\A h \in HasherIds :
         /\ (call'.h = h /\ call'.op \in {"getDigestSize", "getName"})
            => /\ hashers'[h] = hashers[h]
               /\ heap' = heap
               /\ outbuf'[h] = outbuf[h]
         /\ (call'.h = h /\ call'.op = "getDigestSize")
            => call'.val = IF hashers[h].kind = "crc32" THEN 4
                           ELSE EVP_MD_size(EVP_get_digestbyname(hashers[h].name_))
         /\ (call'.h = h /\ call'.op = "getName")
            => call'.arg = hashers[h].name_
         /\ (hashers[h].kind # "none" /\ hashers'[h].kind # "none")
            => /\ hashers'[h].kind = hashers[h].kind
               /\ hashers'[h].name_ = hashers[h].name_]_vars

\* getDigestSize() returned 4 on a Crc32Hasher that had consumed bytes and
\* was finalized
C18_Witness ==
    \E h \in HasherIds :
        /\ call.op = "getDigestSize" /\ call.h = h /\ call.val = 4
        /\ hashers[h].kind = "crc32"
        /\ hashers[h].isFinalized_
        /\ hist[h].sent # <<>>

(* C19: on a live hasher the finalized flag changes only from false to     *)
(* true and only in a finalize call that returns true; every consume       *)
(* call, every finalize call that returns false (already finalized, null   *)
(* buffer, short buffer, engine failure) and every getDigestSize or        *)
(* getName call leaves it as it was, and after a finalize in which the     *)
(* engine failed the hasher is still Active.                               *)
C19_FlagSetOnlyByFinalize ==
    [][\A h \in HasherIds :
         (hashers[h].kind # "none" /\ hashers'[h].kind # "none")
         => /\ hashers'[h].isFinalized_ # hashers[h].isFinalized_
               => /\ call'.op = "finalize" /\ call'.h = h /\ call'.ret
                  /\ ~hashers[h].isFinalized_
                  /\ hashers'[h].isFinalized_
            /\ (call'.h = h /\ call'.op \in {"consume", "getDigestSize", "getName"})
               => hashers'[h].isFinalized_ = hashers[h].isFinalized_
            /\ (call'.h = h /\ call'.op = "finalize" /\ ~call'.ret)
               => hashers'[h].isFinalized_ = hashers[h].isFinalized_
            /\ (call'.h = h /\ call'.op = "finalize" /\ ~call'.eng)
               => /\ ~call'.ret
                  /\ ~hashers'[h].isFinalized_]_vars

\* the engine failed in the finalize of an EvpHasher that had consumed
\* bytes, and the hasher is not finalized
C19_Witness ==
    \E h \in HasherIds :
        /\ call.op = "finalize" /\ call.h = h /\ ~call.eng /\ ~call.ret
        /\ hashers[h].kind = "evp"
        /\ ~hashers[h].isFinalized_
        /\ hist[h].sent # <<>>

(* ------------- the byte update over the values of the register -------- *)

\* the bytes fed: no bit, the low bit, one nibble, mixed bits, the high bit,
\* all bits
StepBytes == {0, 1, 15, 90, 128, 165, 240, 255}

(* A Crc32Hasher whose register is any of Registers consumes one byte of   *)
(* StepBytes: one run of the loop body of consumeImpl for each pair of a   *)
(* register and a byte.                                                    *)
StepNext ==
    /\ hist["orig"].sent = <<>>
    /\ \E b \in StepBytes : ConsumeCall("orig", FALSE, <<b>>, TRUE)

StepSpec == RegisterInit /\ [][StepNext]_vars

\* w is a 32-bit word: four bytes, each within 0..255
IsWord(w) == Len(w) = 4 /\ \A k \in 1..4 : w[k] \in 0..255

\* the bitwise reference: b is XORed into the low byte of r and the result
\* goes through eight rounds of shift and conditional XOR with 0xEDB88320
BitwiseUpdate(r, b) == LutRounds(Xor32(r, Widen(b)), 8)

\* every entry of the table is the eight-round value of its index and is a
\* 32-bit word
LutIsEightRounds ==
    \A i \in 0..255 :
        /\ crc32Lut[i] = BitwiseUpdate(Zero32, i)
        /\ IsWord(crc32Lut[i])

(* C20: for every register value r and byte b consumed, the register after *)
(* the table-driven update, table[(r XOR b) & 0xFF] XOR (r >> 8), is the   *)
(* value of the bitwise reference for r and b; every table entry is the    *)
(* eight-round value of its index, and table entries and registers stay    *)
(* within 32 bits.                                                         *)
C20_TableEqualsBitwise ==
    [][/\ \A h \in HasherIds :
            (call'.op = "consume" /\ call'.h = h /\ call'.ret /\ call'.arg = "data"
               /\ hashers[h].kind = "crc32")
            => LET r == hashers[h].partial_
                   b == hist'[h].sent[Len(hist'[h].sent)]
               IN  /\ hashers'[h].partial_ = BitwiseUpdate(r, b)
                   /\ hashers'[h].partial_
                        = Xor32(crc32Lut[LowByte(Xor32(r, Widen(b)))], Shr8(r))
                   /\ IsWord(hashers'[h].partial_)
       /\ LutIsEightRounds]_vars

\* a register with bits in every byte after a byte with mixed bits
C20_Witness ==
    /\ call.op = "consume" /\ call.ret
    /\ hashers["orig"].kind = "crc32"
    /\ hist["orig"].sent = <<165>>
    /\ \A k \in 1..4 : hashers["orig"].partial_[k] # 0

(* ------------------- bytesToStr and strToBytes called ----------------- *)

\* bytes of a digest at once
MaxHexLen == 2

\* 0x00, 0x0a, 0xa0, 0x1f, 0xab: a zero in both nibbles, in the high one, in
\* the low one, in none with a decimal digit, in none with letters only
HexBytes == {0, 10, 160, 31, 171}

HexInit ==
    /\ hashers = [h \in HasherIds |-> NoHasher]
    /\ heap = [c \in CtxIds |-> UnallocCtx]
    /\ outbuf = [h \in HasherIds |-> FreshBuf]
    /\ hist = [h \in HasherIds |-> NewHist]
    /\ call = NoCall
    /\ crashed = FALSE
    /\ handles = [w \in HandleIds |-> DeadHandle]
    /\ threads = [h \in HasherIds |-> NoThread]
    /\ driver = NoDriver
    /\ files = NoFiles
    /\ \E b \in SeqsUpTo(HexBytes, MaxHexLen), nd \in BOOLEAN :
         util = [NoUtil EXCEPT !.pc = "args", !.buf = b, !.ndebug = nd]

\* bytesToStr(buf, count) over the whole of buf
BytesToStrCall ==
    /\ util.pc = "args"
    /\ LET r == bytesToStr(util.buf, Len(util.buf), util.ndebug)
       IN  util' = [util EXCEPT !.pc = "bytesToStr", !.out = r.out, !.ret = r.str]
    /\ UNCHANGED <<hashers, heap, outbuf, hist, call, crashed, handles, threads, driver,
                   files>>

\* strToBytes of the string bytesToStr returned
StrToBytesCall ==
    /\ util.pc = "bytesToStr"
    /\ util.out = "ok"
    /\ util' = [util EXCEPT !.pc = "strToBytes", !.back = strToBytes(util.ret)]
    /\ UNCHANGED <<hashers, heap, outbuf, hist, call, crashed, handles, threads, driver,
                   files>>

HexNext == BytesToStrCall \/ StrToBytesCall

HexSpec == HexInit /\ [][HexNext]_vars

\* the characters 0-9 and a-f
LowerHexDigits == (48..57) \cup (97..102)

(* C23: for every byte sequence, bytes with a zero nibble included,        *)
(* bytesToStr violates no assertion and returns 2*count lowercase hex      *)
(* digits, and strToBytes of that string returns the bytes.                *)
C23_BytesToStrRenders ==
    /\ util.pc \in {"bytesToStr", "strToBytes"}
       => /\ util.out = "ok"
          /\ Len(util.ret) = 2 * Len(util.buf)
          /\ \A k \in 1..Len(util.ret) : util.ret[k] \in LowerHexDigits
    /\ util.pc = "strToBytes"
       => util.back = [some |-> TRUE, vec |-> util.buf]

(* ----------------------------- splitOnChar ---------------------------- *)
(* str is the characters before the terminating '\0': *(str + i) is        *)
(* CharAt(str, i + 1), and the terminator is the character 0.              *)

\* ',' is 44, ';' is 59 and 'a' is 97
CharAt(str, i) == IF i <= Len(str) THEN str[i] ELSE 0

\* while (*finger != '\0' && *finger != ',') finger++;
RECURSIVE ScanToComma(_, _)
ScanToComma(str, finger) ==
    IF CharAt(str, finger) # 0 /\ CharAt(str, finger) # 44
    THEN ScanToComma(str, finger + 1)
    ELSE finger

\* the for (;;) loop of splitOnChar from start and finger, with vec built so
\* far; the assert in its else branch aborts the process unless the build
\* defines NDEBUG
RECURSIVE splitOnCharLoop(_, _, _, _, _, _)
splitOnCharLoop(str, delim, ndebug, start, finger, vec) ==
    LET f == ScanToComma(str, finger)
        v == Append(vec, SubSeq(str, start, f - 1))
    IN  IF CharAt(str, f) = delim
        THEN splitOnCharLoop(str, delim, ndebug, f + 1, f + 1, v)
        ELSE IF ~ndebug /\ CharAt(str, f) # 0
        THEN [out |-> "assert", vec |-> <<>>]
        ELSE [out |-> "ok", vec |-> v]

\* splitOnChar(str, delim)
splitOnChar(str, delim, ndebug) ==
    IF CharAt(str, 1) = 0 THEN [out |-> "ok", vec |-> << <<>> >>]
    ELSE splitOnCharLoop(str, delim, ndebug, 1, 1, <<>>)

\* characters of a string at once
MaxSplitLen == 3

\* 'a', ',' and ';'
SplitChars == {97, 44, 59}

\* the delimiters asked for: ',' as main() does, and ';'
SplitDelims == {44, 59}

SplitInit ==
    /\ hashers = [h \in HasherIds |-> NoHasher]
    /\ heap = [c \in CtxIds |-> UnallocCtx]
    /\ outbuf = [h \in HasherIds |-> FreshBuf]
    /\ hist = [h \in HasherIds |-> NewHist]
    /\ call = NoCall
    /\ crashed = FALSE
    /\ handles = [w \in HandleIds |-> DeadHandle]
    /\ threads = [h \in HasherIds |-> NoThread]
    /\ driver = NoDriver
    /\ files = NoFiles
    /\ \E str \in SeqsUpTo(SplitChars, MaxSplitLen), d \in SplitDelims, nd \in BOOLEAN :
         util = [NoUtil EXCEPT !.pc = "args", !.str = str, !.delim = d, !.ndebug = nd]

\* splitOnChar(str, delim)
SplitOnCharCall ==
    /\ util.pc = "args"
    /\ LET r == splitOnChar(util.str, util.delim, util.ndebug)
       IN  util' = [util EXCEPT !.pc = "splitOnChar", !.out = r.out, !.ret = r.vec]
    /\ UNCHANGED <<hashers, heap, outbuf, hist, call, crashed, handles, threads, driver,
                   files>>

SplitNext == SplitOnCharCall

SplitSpec == SplitInit /\ [][SplitNext]_vars

\* the positions of str that hold delim
Occurrences(str, delim) == {i \in 1..Len(str) : str[i] = delim}

\* the substrings of str between consecutive occurrences of delim, in order
SubstringsBetween(str, delim) ==
    LET occ == Occurrences(str, delim)
        cut(n) == IF n = 0 THEN 0
                  ELSE IF n = Cardinality(occ) + 1 THEN Len(str) + 1
                  ELSE CHOOSE i \in occ : Cardinality({j \in occ : j < i}) = n - 1
    IN  [n \in 1..(Cardinality(occ) + 1) |-> SubSeq(str, cut(n - 1) + 1, cut(n) - 1)]

(* C24: for every string and every delimiter, splitOnChar violates neither *)
(* of its assertions and returns the substrings between consecutive        *)
(* occurrences of the delimiter in order, empty ones included: one more    *)
(* element than the delimiter has occurrences.                             *)
C24_SplitOnDelimiter ==
    util.pc = "splitOnChar"
    => /\ util.out = "ok"
       /\ Len(util.ret) = Cardinality(Occurrences(util.str, util.delim)) + 1
       /\ util.ret = SubstringsBetween(util.str, util.delim)

(* ----------------------------- CFileWrapper --------------------------- *)

\* std::fclose(fp): the stream is closed whatever fclose returns
fclose(streams, fp) ==
    [streams EXCEPT ![fp] = [state |-> "closed", closes |-> @.closes + 1]]

\* CFileWrapper::close(): the member fp and the streams afterwards, and the
\* int returned; fcloseRet is what std::fclose returns
CFileWrapper_close(fp, streams, fcloseRet) ==
    IF fp # NullFile
    THEN [fp |-> NullFile, streams |-> fclose(streams, fp), ret |-> fcloseRet]
    ELSE [fp |-> NullFile, streams |-> streams, ret |-> EOF]

\* CFileWrapper w{std::fopen(...)}: the wrapper is given a stream just opened
FWrap(w, f) ==
    /\ ~files.wrappers[w].live
    /\ files.streams[f].state = "unopened"
    /\ files' = [files EXCEPT !.wrappers[w] = [live |-> TRUE, fp |-> f],
                              !.streams[f].state = "open",
                              !.last = [op |-> "ctor", w |-> w, fp |-> NullFile, ret |-> 0]]
    /\ UNCHANGED <<hashers, heap, outbuf, hist, call, crashed, handles, threads, driver,
                   util>>

\* CFileWrapper w{std::move(other)}
FMoveCtor(w, other) ==
    /\ ~files.wrappers[w].live
    /\ files.wrappers[other].live
    /\ files' = [files EXCEPT !.wrappers[w] = [live |-> TRUE, fp |-> files.wrappers[other].fp],
                              !.wrappers[other].fp = NullFile,
                              !.last = [op |-> "move_ctor", w |-> w, fp |-> NullFile,
                                        ret |-> 0]]
    /\ UNCHANGED <<hashers, heap, outbuf, hist, call, crashed, handles, threads, driver,
                   util>>

\* w = std::move(other): fp = other.fp; other.fp = nullptr; other may be w
FMoveAssign(w, other) ==
    /\ files.wrappers[w].live
    /\ files.wrappers[other].live
    /\ LET assigned == [files.wrappers EXCEPT ![w].fp = files.wrappers[other].fp]
       IN  files' = [files EXCEPT !.wrappers = [assigned EXCEPT ![other].fp = NullFile],
                                  !.last = [op |-> "move_assign", w |-> w,
                                            fp |-> files.wrappers[w].fp, ret |-> 0]]
    /\ UNCHANGED <<hashers, heap, outbuf, hist, call, crashed, handles, threads, driver,
                   util>>

\* w.close()
FClose(w) ==
    /\ files.wrappers[w].live
    /\ \E fcloseRet \in {0, EOF} :
         LET r == CFileWrapper_close(files.wrappers[w].fp, files.streams, fcloseRet)
         IN  files' = [files EXCEPT !.wrappers[w].fp = r.fp,
                                    !.streams = r.streams,
                                    !.last = [op |-> "close", w |-> w,
                                              fp |-> files.wrappers[w].fp, ret |-> r.ret]]
    /\ UNCHANGED <<hashers, heap, outbuf, hist, call, crashed, handles, threads, driver,
                   util>>

\* ~CFileWrapper(): close()
FDestroy(w) ==
    /\ files.wrappers[w].live
    /\ \E fcloseRet \in {0, EOF} :
         LET r == CFileWrapper_close(files.wrappers[w].fp, files.streams, fcloseRet)
         IN  files' = [files EXCEPT !.wrappers[w] = [live |-> FALSE, fp |-> NullFile],
                                    !.streams = r.streams,
                                    !.last = [op |-> "dtor", w |-> w,
                                              fp |-> files.wrappers[w].fp, ret |-> 0]]
    /\ UNCHANGED <<hashers, heap, outbuf, hist, call, crashed, handles, threads, driver,
                   util>>

FileNext ==
    \/ \E w \in WrapIds, f \in FileIds : FWrap(w, f)
    \/ \E w \in WrapIds, other \in WrapIds : FMoveCtor(w, other)
    \/ \E w \in WrapIds, other \in WrapIds : FMoveAssign(w, other)
    \/ \E w \in WrapIds : FClose(w)
    \/ \E w \in WrapIds : FDestroy(w)

FileSpec == Init /\ [][FileNext]_vars

\* the live wrappers whose fp is the stream f
Holders(f) == {w \in WrapIds : files.wrappers[w].live /\ files.wrappers[w].fp = f}

(* C25: over every sequence of construction, move-construction,            *)
(* move-assignment, close() and destruction, no stream is closed twice,    *)
(* none is leaked (a stream that is open is the fp of exactly one live     *)
(* wrapper, which will close it; a closed one was closed once and is       *)
(* nobody's fp), and close() on a wrapper that holds no file returns EOF   *)
(* and closes nothing.                                                     *)
C25_ClosedExactlyOnce ==
    /\ \A f \in FileIds :
         /\ files.streams[f].closes <= 1
         /\ files.streams[f].state = "open"
            => Cardinality(Holders(f)) = 1 /\ files.streams[f].closes = 0
         /\ files.streams[f].state = "closed"
            => Holders(f) = {} /\ files.streams[f].closes = 1
         /\ files.streams[f].state = "unopened"
            => Holders(f) = {} /\ files.streams[f].closes = 0
    /\ (files.last.op = "close" /\ files.last.fp = NullFile) => files.last.ret = EOF

(* ----------------------- the loops of main() -------------------------- *)

\* the chunks fread has returned, in order
ReadChunks ==
    LET sel == SelectSeq(driver.log, LAMBDA e : e.ev = "read")
    IN  [i \in 1..Len(sel) |-> sel[i].data]

\* the chunks passed to consume of hasher j, in order
ChunksOf(j) ==
    LET sel == SelectSeq(driver.log, LAMBDA e : e.ev = "consume" /\ e.k = j)
    IN  [i \in 1..Len(sel) |-> sel[i].data]

IsPrefix(q, r) == Len(q) <= Len(r) /\ q = SubSeq(r, 1, Len(q))

\* finalize was called on hasher j and returned true
FinalizedOk(j) ==
    \E p \in 1..Len(driver.log) :
        driver.log[p].ev = "finalize" /\ driver.log[p].k = j /\ driver.log[p].ret

(* C21: in main(), a chunk read is passed to consume of every hasher, in   *)
(* list order, before the file is read again: a consume call on hasher j   *)
(* passes the chunk of the last read and comes right after the consume     *)
(* calls on hashers 1..j-1 for that chunk, and a read comes first or right *)
(* after the consume call on the last hasher; every hasher is passed the   *)
(* chunks read, in the order read, and all of them once the end of the     *)
(* file is reached; finalize is called on a hasher only after the end of   *)
(* the file was reached, never twice and never before a consume on any     *)
(* hasher, and once on every hasher when the finalize loop has completed.  *)
C21_DriverLockStep ==
    LET L == driver.log
        n == Len(driver.algoEls)
    IN  /\ Len(L) > 0 => L[1].ev \in {"read", "eof", "readerr"}
        /\ \A p \in 1..Len(L) :
             /\ L[p].ev = "consume"
                => LET j == L[p].k
                   IN  /\ j \in 1..n
                       /\ p > j
                       /\ L[p - j].ev = "read"
                       /\ L[p].data = L[p - j].data
                       /\ \A m \in 1..(j - 1) :
                            /\ L[p - j + m].ev = "consume"
                            /\ L[p - j + m].k = m
                            /\ L[p - j + m].ret
             /\ (L[p].ev \in {"read", "eof", "readerr"} /\ p > 1)
                => /\ L[p - 1].ev = "consume"
                   /\ L[p - 1].k = n
                   /\ L[p - 1].ret
             /\ L[p].ev = "finalize"
                => /\ \E q \in 1..(p - 1) : L[q].ev = "eof"
                   /\ \A q \in 1..Len(L) :
                        (L[q].ev = "finalize" /\ L[q].k = L[p].k) => q = p
                   /\ \A q \in (p + 1)..Len(L) : L[q].ev = "finalize"
        /\ \A j \in 1..n : IsPrefix(ChunksOf(j), ReadChunks)
        /\ (\E p \in 1..Len(L) : L[p].ev = "eof")
           => \A j \in 1..n : ChunksOf(j) = ReadChunks
        /\ (driver.pc = "print" \/ driver.status \in {"ok", "aborted"})
           => \A j \in 1..n : FinalizedOk(j)

\* a run over two hashers and two chunks returned 0: two reads, four consume
\* calls, the end of the file and two finalize calls
C21_Witness ==
    /\ driver.status = "ok"
    /\ Len(driver.algoEls) = 2
    /\ Len(ReadChunks) = 2
    /\ Len(ChunksOf(2)) = 2
    /\ Len(driver.log) = 9

(* C22: main() prints a digest line only when finalize has returned true   *)
(* on every hasher and nothing has failed; after a read error, a consume   *)
(* that returned false or a finalize that returned false the run has       *)
(* ended with return -1 and no digest line is printed.                     *)
C22_AllOrNothingOutput ==
    LET L == driver.log
        n == Len(driver.algoEls)
        failed == \E p \in 1..Len(L) : ~L[p].ret
    IN  /\ driver.printed # <<>> => (~failed /\ \A j \in 1..n : FinalizedOk(j))
        /\ failed => (driver.status = "fail" /\ driver.printed = <<>>)
        /\ driver.status = "fail" => driver.printed = <<>>

\* finalize returned true on the first of two hashers and false on the
\* second: the run ended with -1 and nothing printed
C22_Witness ==
    /\ driver.status = "fail"
    /\ Len(driver.algoEls) = 2
    /\ FinalizedOk(1)
    /\ driver.log[Len(driver.log)].ev = "finalize"
    /\ driver.log[Len(driver.log)].k = 2
    /\ ~driver.log[Len(driver.log)].ret
    /\ driver.printed = <<>>

====
